---- MODULE Spec2Model ----
(***************************************************************************)
(* Coordination core of the multi-agent orchestrator: the agent execution *)
(* wrapper (orchestrator/agent.py), the priority scheduler                *)
(* (orchestrator/scheduler.py), the task router (orchestrator/router.py)  *)
(* and the orchestrator's dispatch / broadcast / route operations         *)
(* (orchestrator/core.py).                                                 *)
(*                                                                         *)
(* The program runs on one asyncio event loop: code between two            *)
(* suspension points is atomic.  Each action below is one such section.    *)
(* The only suspension points of the operations modelled here are the      *)
(* domain handler awaited by AgentBase.execute, the semaphore of           *)
(* TaskScheduler.run_next and the asyncio.gather of broadcast_task.        *)
(***************************************************************************)
EXTENDS Integers, Sequences, FiniteSets, TLC

----------------------------------------------------------------------------
(* Bounds of the model.                                                    *)

\* number of orchestrator calls (dispatch_task, route_task, broadcast_task)
MaxCalls == 2
\* number of direct AgentBase.execute calls
MaxExec == 2
\* the wall clock runs from 0 to MaxTime seconds, in steps of TickSec
MaxTime == 60
TickSec == 60
\* number of direct AgentBase.start / AgentBase.stop calls
MaxLifecycle == 1
\* the clock readings of one select call: between the scoring of one
\* candidate and the next the clock advances by 0 .. MaxDrift ticks, each
\* tick shorter than any difference of two timestamps of the model
MaxDrift == 1
\* number of direct TaskRouter.select calls
MaxSelect == 2
\* a scheduler of its own: TaskScheduler(max_concurrent=SchedCap), the
\* number of coroutines scheduled on it and of run_next / run_all calls
SchedCap == 2
MaxItems == 4
MaxRuns == 3
\* number of register_device / unregister_device calls, of on calls, of
\* start / stop calls, and of health-check cycles one loop is followed for
MaxDevCalls == 3
MaxOn == 2
MaxStartStop == 2
MaxCycles == 2
\* number of direct ping calls
MaxPings == 2
\* number of device calls and of dispatch_task calls made while the events
\* are followed
MaxEventCalls == 1
MaxEventDispatch == 1
\* the clock reading at which the direct select calls are made, and the
\* latest last_task_at an agent may have by then
RouterClock == 60
MaxLastTask == 40

----------------------------------------------------------------------------
(* Program constants.                                                      *)

\* TaskScheduler(max_concurrent=10), the default the orchestrator uses
max_concurrent == 10
\* TaskRouter._RECENCY_WINDOW_SEC
RECENCY_WINDOW_SEC == 60
\* TaskRouter.DEFAULT_WEIGHTS, in tenths
DEFAULT_WEIGHTS == [availability |-> 5, success_rate |-> 3, recency |-> 2]
\* route_task(..., priority=5)
DEFAULT_PRIORITY == 5

\* The agent objects.  agent_id is a uuid4 string; the numbers stand for the
\* ids in their lexicographic order.
AgentIds == {1, 2, 3}
\* AgentBase.agent_type, fixed at construction
agent_type(a) == IF a = 3 THEN "firmware_agent" ELSE "frequency_agent"
AgentTypes == {"frequency_agent", "firmware_agent"}

\* Task names: "get_frequency" is a FrequencyAgent task and "list_builds" a
\* FirmwareAgent task; each is an unsupported task name for the other type.
Tasks == {"get_frequency", "list_builds"}
SupportedTasks(type) ==
    IF type = "frequency_agent" THEN {"get_frequency"}
    ELSE IF type = "firmware_agent" THEN {"list_builds"}
    ELSE {}
\* the value the handler of agent a returns when it succeeds: it depends
\* on the agent's own domain state, so each agent has its own
HandlerResult(a) == IF a = 1 THEN "r1" ELSE IF a = 2 THEN "r2" ELSE "r3"
\* priorities a caller may pass to route_task
Priorities == {1, DEFAULT_PRIORITY}

None == 0

\* The devices: device_id is chosen by the caller, so two device objects
\* may carry the same id
DeviceIds == {1, 2}
DeviceObjs == {1, 2}
\* the events the orchestrator emits
EventNames == {"device_registered", "device_unregistered", "agent_registered",
               "task_dispatched", "task_completed", "orchestrator_started",
               "orchestrator_stopped"}
\* The callbacks passed to on: callback 1 raises an Exception whenever it
\* is called, callback 2 returns
Listeners == {1, 2}
ListenerRaises(l) == l = 1
\* how a ping of the health check may end: ESP32Device.ping returns True or
\* False; the ping of a subclass may raise
PingOutcomes == {"online", "offline", "raised"}
\* the device objects
DeviceKeys == DeviceIds \X DeviceObjs
DeviceStatuses == {"unknown", "online", "offline", "updating", "error"}
\* how the probe of ESP32Device.ping (the ping subprocess) may end: exit
\* status 0, another exit status, no answer within the timeout, or the
\* process cannot be run
ProbeOutcomes == {"zero", "nonzero", "timeout", "oserror"}

----------------------------------------------------------------------------
VARIABLES
    agents,        \* agent object -> [status, tasks_completed, tasks_failed, last_task_at]
    registry,      \* Orchestrator._agents: the registered agent ids, in insertion order
    task_results,  \* Orchestrator._task_results: task id -> record
    queue,         \* TaskScheduler._queue: the heap array of ScheduledTask
    sem,           \* TaskScheduler._semaphore: free slots
    nextId,        \* the uuid4 values handed out so far are 1 .. nextId-1
    now,           \* datetime.now(timezone.utc), in seconds
    calls,         \* the orchestrator calls made so far, in call order
    disp,          \* task id -> the dispatch_task invocation that generated it
                   \* and its execute (a direct execute has a key of its own)
    trace,         \* per task id (0: none): the events emitted and the
                   \* milestones of execute and dispatch_task, in order
    lifecycle,     \* number of direct start / stop calls made
    weights,       \* TaskRouter._weights: numerators and their denominator
    picks,         \* the direct TaskRouter.select calls made so far
    cap,           \* TaskScheduler._max_concurrent
    items,         \* the coroutines passed to schedule directly, in call order
    runs,          \* the direct run_next / run_all calls made so far
    devices,       \* Orchestrator._devices: [device_id, obj], in insertion order
    listeners,     \* Orchestrator._event_listeners: event -> callbacks, in
                   \* subscription order (with the number of device calls
                   \* made before the subscription)
    heard,         \* the emissions that found a listener: event, payload id,
                   \* the callbacks called, in order
    running,       \* Orchestrator._running
    loops,         \* the _health_check_loop tasks created so far
    ops,           \* the register_device / unregister_device / start / stop
                   \* / ping calls made so far
    devstate       \* the fields of the device objects: status, last_seen,
                   \* ip_address (set or not)

vars == <<agents, registry, task_results, queue, sem, nextId, now, calls, disp,
          trace, lifecycle, weights, picks, cap, items, runs, devices,
          listeners, heard, running, loops, ops, devstate>>

\* How a coroutine ends: it returns a value (val, or the task id id) or
\* raises the error val, or is suspended in the dispatch id.
Outcome(kind, val, id) == [kind |-> kind, val |-> val, id |-> id]
NoOutcome == Outcome("none", "none", None)

\* The program state as one value, so that a handler is the composition of
\* the statements it runs; ret is what the last statement handed back.
St == [agents |-> agents, registry |-> registry, task_results |-> task_results,
       queue |-> queue, sem |-> sem, nextId |-> nextId, now |-> now,
       calls |-> calls, disp |-> disp, trace |-> trace, weights |-> weights,
       picks |-> picks, cap |-> cap, items |-> items, runs |-> runs,
       devices |-> devices, listeners |-> listeners, heard |-> heard,
       running |-> running, loops |-> loops, ops |-> ops,
       devstate |-> devstate, ret |-> NoOutcome]

Commit(S) ==
    /\ agents' = S.agents
    /\ registry' = S.registry
    /\ task_results' = S.task_results
    /\ queue' = S.queue
    /\ sem' = S.sem
    /\ nextId' = S.nextId
    /\ now' = S.now
    /\ calls' = S.calls
    /\ disp' = S.disp
    /\ trace' = S.trace
    /\ weights' = S.weights
    /\ picks' = S.picks
    /\ cap' = S.cap
    /\ items' = S.items
    /\ runs' = S.runs
    /\ devices' = S.devices
    /\ listeners' = S.listeners
    /\ heard' = S.heard
    /\ running' = S.running
    /\ loops' = S.loops
    /\ ops' = S.ops
    /\ devstate' = S.devstate

Range(s) == {s[i] : i \in 1..Len(s)}
EmptyMap == [k \in {} |-> None]

----------------------------------------------------------------------------
(* AgentBase (orchestrator/agent.py)                                       *)

\* last_task_at is None until the first execute; -1 stands for None
NoTime == 0 - 1

\* the fields of a device object as its constructor leaves them; ip is
\* whether ip_address is set
NewDevice(ip) == [status |-> "unknown", last_seen |-> NoTime, ip |-> ip]

\* AgentBase.__init__
NewAgent == [status |-> "idle", tasks_completed |-> 0, tasks_failed |-> 0,
             last_task_at |-> NoTime]

\* AgentBase.start: status = IDLE, then the (empty) _on_start hook
AgentStartEffect(ag) == [ag EXCEPT !.status = "idle"]

\* AgentBase.stop: status = STOPPED, then the (empty) _on_stop hook
AgentStopEffect(ag) == [ag EXCEPT !.status = "stopped"]

\* execute, lines 82-83: before the handler is awaited
ExecuteBegin(ag, t) == [ag EXCEPT !.status = "busy", !.last_task_at = t]

\* (mutant) the success path forgets to reset the status
ExecuteSuccessStaysBusy(ag) == [ag EXCEPT !.tasks_completed = @ + 1]

\* execute, lines 86-87: the handler returned
ExecuteSuccess(ag) ==
    [ag EXCEPT !.tasks_completed = @ + 1, !.status = "idle"]

\* (mutant) the failure path counts the task as completed as well
ExecuteFailureCountsBoth(ag) ==
    [ag EXCEPT !.tasks_failed = @ + 1, !.tasks_completed = @ + 1,
               !.status = "error"]

\* execute, lines 90-91: the handler raised an Exception
ExecuteFailure(ag) ==
    [ag EXCEPT !.tasks_failed = @ + 1, !.status = "error"]

\* what execute hands to its caller when the handler returned h (line 88)
ExecuteReturn(h) == Outcome("returned", h.val, None)

\* what execute hands to its caller when the handler raised h (line 93)
ExecuteRaise(h) == Outcome("raised", h.val, None)

\* The outcomes of the domain handler _execute of agent a for a task name:
\* a supported task returns a value or fails; an unsupported one raises
\* ValueError.
HandlerOutcomes(a, task) ==
    IF task \in SupportedTasks(agent_type(a))
    THEN {Outcome("returned", HandlerResult(a), None),
          Outcome("raised", "HandlerError", None)}
    ELSE {Outcome("raised", "UnknownTask", None)}

----------------------------------------------------------------------------
(* TaskScheduler (orchestrator/scheduler.py)                               *)

\* (mutant) items of equal priority compare by the order they were
\* scheduled in
TaskLessFifo(x, y) ==
    \/ x.priority < y.priority
    \/ x.priority = y.priority /\ x.task_id < y.task_id

\* ScheduledTask is a dataclass(order=True) whose only compared field is
\* priority
TaskLess(x, y) == x.priority < y.priority

\* heapq._siftdown(heap, startpos, pos), positions counted from 1
RECURSIVE SiftDown(_, _, _, _)
SiftDown(heap, startpos, pos, newitem) ==
    IF pos > startpos /\ TaskLess(newitem, heap[pos \div 2])
    THEN SiftDown([heap EXCEPT ![pos] = heap[pos \div 2]], startpos,
                  pos \div 2, newitem)
    ELSE [heap EXCEPT ![pos] = newitem]

\* the loop of heapq._siftup: bubbles the smaller child up until a leaf is
\* hit; yields the heap and the leaf position
RECURSIVE SiftUpLoop(_, _)
SiftUpLoop(heap, pos) ==
    LET childpos == 2 * pos
        rightpos == childpos + 1
        c == IF rightpos <= Len(heap) /\ ~TaskLess(heap[childpos], heap[rightpos])
             THEN rightpos ELSE childpos
    IN IF childpos <= Len(heap)
       THEN SiftUpLoop([heap EXCEPT ![pos] = heap[c]], c)
       ELSE <<heap, pos>>

\* heapq._siftup(heap, pos)
SiftUp(heap, pos) ==
    LET r == SiftUpLoop(heap, pos)
    IN SiftDown(r[1], pos, r[2], heap[pos])

\* heapq.heappush(self._queue, task)
heappush(heap, item) == SiftDown(Append(heap, item), 1, Len(heap) + 1, item)

\* heapq.heappop(self._queue) on a non-empty heap: the item and the heap left
heappop(heap) ==
    LET lastelt == heap[Len(heap)]
        rest == SubSeq(heap, 1, Len(heap) - 1)
    IN IF Len(rest) > 0
       THEN [item |-> rest[1], heap |-> SiftUp([rest EXCEPT ![1] = lastelt], 1)]
       ELSE [item |-> lastelt, heap |-> rest]

\* ScheduledTask(...) as built by schedule; coro is the dispatch_task
\* coroutine object: its bound arguments, not yet started
ScheduledTask(priority, task_id, coro) ==
    [priority |-> priority, task_id |-> task_id, coro |-> coro]

\* TaskScheduler.schedule
schedule(S, coro, task_id, priority) ==
    [S EXCEPT !.queue = heappush(@, ScheduledTask(priority, task_id, coro))]

\* (mutant) schedule appends to the list without restoring the heap order
ScheduleItemUnsorted(S, priority) ==
    LET i == Len(S.items) + 1
    IN [S EXCEPT !.items = Append(@, [priority |-> priority, state |-> "pending",
                                      starts |-> 0, by |-> None,
                                      out |-> NoOutcome]),
                 !.queue = Append(@, ScheduledTask(priority, i, [item |-> i])),
                 !.runs = [r \in DOMAIN @ |->
                              IF @[r].op = "run_all"
                                 /\ @[r].pc \in {"gather", "awaiting"}
                              THEN [@[r] EXCEPT !.late = TRUE] ELSE @[r]]]

\* TaskScheduler.schedule called with a coroutine of the caller's: item i.
\* A run_all that is under way is marked as having seen a late arrival.
ScheduleItem(S, priority) ==
    LET i == Len(S.items) + 1
    IN [S EXCEPT !.items = Append(@, [priority |-> priority, state |-> "pending",
                                      starts |-> 0, by |-> None,
                                      out |-> NoOutcome]),
                 !.queue = heappush(@, ScheduledTask(priority, i, [item |-> i])),
                 !.runs = [r \in DOMAIN @ |->
                              IF @[r].op = "run_all"
                                 /\ @[r].pc \in {"gather", "awaiting"}
                              THEN [@[r] EXCEPT !.late = TRUE] ELSE @[r]]]

\* a run_next or run_all call that has just been made
NewRun(op) ==
    [op |-> op, pc |-> "called", item |-> None, batch |-> <<>>,
     taken |-> <<>>, cuts |-> <<>>, results |-> <<>>, out |-> NoOutcome,
     late |-> FALSE, left |-> None]

\* the coroutine of item i is awaited for the first time, by run r
StartItem(S, i, r) ==
    [S EXCEPT !.items[i].state = "running", !.items[i].starts = @ + 1,
              !.items[i].by = r]

\* the value run_next returns on an empty queue (line 58)
NoTask == Outcome("returned", "None", None)

\* TaskScheduler.run_next up to its first suspension (lines 57-61)
SchedRunNext(S, r) ==
    LET popped == heappop(S.queue)
        i == popped.item.coro.item
        S1 == [S EXCEPT !.queue = popped.heap, !.runs[r].item = i]
    IN IF Len(S.queue) = 0
       THEN [S EXCEPT !.runs[r].pc = "returned", !.runs[r].out = NoTask]
       ELSE IF S1.sem > 0
       THEN [StartItem([S1 EXCEPT !.sem = @ - 1], i, r) EXCEPT
                !.runs[r].pc = "awaiting"]
       ELSE [S1 EXCEPT !.runs[r].pc = "acquire"]

\* run_next gets the semaphore it waited for (line 60) and awaits its item
SchedAcquire(S, r) ==
    [StartItem([S EXCEPT !.sem = @ - 1], S.runs[r].item, r) EXCEPT
        !.runs[r].pc = "awaiting"]

\* run_all, lines 67-69: one batch is popped from the queue
RECURSIVE PopBatch(_, _)
PopBatch(S, r) ==
    IF Len(S.queue) > 0 /\ Len(S.runs[r].batch) < S.cap
    THEN LET popped == heappop(S.queue)
         IN PopBatch([S EXCEPT !.queue = popped.heap,
                               !.runs[r].batch = Append(@, popped.item.coro.item),
                               !.runs[r].taken = Append(@, popped.item.coro.item)],
                     r)
    ELSE S

\* run_all at the head of its outer loop (line 66): the next batch is
\* popped and handed to gather, or the results are returned (line 72)
RunAllLoop(S, r) ==
    IF Len(S.queue) > 0
    THEN [PopBatch([S EXCEPT !.runs[r].batch = <<>>,
                             !.runs[r].cuts = Append(@, Len(S.runs[r].taken))], r)
             EXCEPT !.runs[r].pc = "gather"]
    ELSE [S EXCEPT !.runs[r].pc = "returned", !.runs[r].batch = <<>>,
                   !.runs[r].out = Outcome("returned", "list", None),
                   !.runs[r].left = Len(S.queue)]

\* the Tasks gather made of the batch run their first step, in batch order
RECURSIVE BatchStart(_, _, _)
BatchStart(S, r, n) ==
    IF n > Len(S.runs[r].batch) THEN [S EXCEPT !.runs[r].pc = "awaiting"]
    ELSE BatchStart(StartItem(S, S.runs[r].batch[n], r), r, n + 1)

\* (mutant) the errors of the batch are left out of the results
BatchDoneDropsErrors(S, r) ==
    [S EXCEPT !.runs[r].results =
        @ \o SelectSeq([k \in 1..Len(S.runs[r].batch) |->
                           S.items[S.runs[r].batch[k]].out],
                       LAMBDA o : o.kind = "returned")]

\* gather(return_exceptions=True) is done: the outcomes of the batch, errors
\* among them, are appended in batch order (lines 70-71)
BatchDone(S, r) ==
    [S EXCEPT !.runs[r].results =
        @ \o [k \in 1..Len(S.runs[r].batch) |-> S.items[S.runs[r].batch[k]].out]]

\* the coroutine of item i ends with o.  run_next leaves the semaphore
\* block and hands o on (line 61); for run_all the Task of the item is done
ItemDone(S, i, o) ==
    LET r == S.items[i].by
        S1 == [S EXCEPT !.items[i].state = "done", !.items[i].out = o]
    IN IF S.runs[r].op = "run_next"
       THEN [S1 EXCEPT !.sem = @ + 1, !.runs[r].pc = o.kind, !.runs[r].out = o]
       ELSE S1

----------------------------------------------------------------------------
(* TaskRouter (orchestrator/router.py).  Scores are exact fractions        *)
(* num / den; the code computes them in binary floating point.             *)

\* The keys of the weight table and the overrides a caller may pass to the
\* constructor: a table over any subset of the keys (the empty table is
\* weights=None), raw values in tenths
WeightKeys == {"availability", "success_rate", "recency"}
OverrideValues == {0 - 5, 0, 10}
Overrides == UNION {[D -> OverrideValues] : D \in SUBSET WeightKeys}
NoOverride == [k \in {} |-> 0]

\* {**self.DEFAULT_WEIGHTS, **(weights or {})}
MergedWeights(o) ==
    [k \in WeightKeys |-> IF k \in DOMAIN o THEN o[k] ELSE DEFAULT_WEIGHTS[k]]

\* TaskRouter.__init__: total = sum(w.values()) or 1.0, every weight is
\* divided by total.  The table holds the numerators and the common
\* denominator den, kept positive (1.0 is 10 tenths).
TaskRouterInit(o) ==
    LET w == MergedWeights(o)
        sum == w.availability + w.success_rate + w.recency
        total == IF sum = 0 THEN 10 ELSE sum
        sgn == IF total < 0 THEN 0 - 1 ELSE 1
    IN [availability |-> sgn * w.availability,
        success_rate |-> sgn * w.success_rate,
        recency |-> sgn * w.recency,
        den |-> sgn * total]

\* TaskRouter._AVAILABILITY, in halves
Availability(ag) ==
    IF ag.status = "idle" THEN 2
    ELSE IF ag.status \in {"running", "busy"} THEN 1
    ELSE 0

\* (mutant) an agent without history counts as having failed everything
SuccessRateNoHistoryZero(ag) ==
    LET total == ag.tasks_completed + ag.tasks_failed
    IN IF total > 0 THEN [num |-> ag.tasks_completed, den |-> total]
       ELSE [num |-> 0, den |-> 1]

\* TaskRouter._success_rate as a fraction
SuccessRate(ag) ==
    LET total == ag.tasks_completed + ag.tasks_failed
    IN IF total > 0 THEN [num |-> ag.tasks_completed, den |-> total]
       ELSE [num |-> 1, den |-> 1]

\* TaskRouter._recency as a fraction of the recency window
Recency(ag, t) ==
    IF ag.last_task_at = NoTime THEN [num |-> 1, den |-> 1]
    ELSE LET age_sec == t - ag.last_task_at
         IN [num |-> IF age_sec < RECENCY_WINDOW_SEC THEN age_sec
                     ELSE RECENCY_WINDOW_SEC,
             den |-> RECENCY_WINDOW_SEC]

\* TaskRouter._score: w_a * avail + w_s * sr + w_r * rec as one fraction
\* (the availability is in halves)
Score(w, ag, t) ==
    LET sr == SuccessRate(ag)
        rec == Recency(ag, t)
    IN [num |-> w.availability * Availability(ag) * sr.den * rec.den
                + w.success_rate * 2 * sr.num * rec.den
                + w.recency * 2 * rec.num * sr.den,
        den |-> w.den * 2 * sr.den * rec.den]

ScoreGreater(x, y) == x.num * y.den > y.num * x.den
ScoreEqual(x, y) == x.num * y.den = y.num * x.den

\* _recency reads datetime.now() anew for every agent it scores (line 123).
\* The sequences of readings of one select call: reading i is jit[i] ticks
\* after the first.
Jitters(n) ==
    {j \in [1..n -> 0..(n * MaxDrift)] :
        /\ n > 0 => j[1] = 0
        /\ \A i \in 1..(n - 1) : j[i + 1] - j[i] \in 0..MaxDrift}
NoJitter(n) == [i \in 1..n |-> 0]

\* What e ticks of the clock add to the score of ag, in units of
\* 1 / (w.den * window): the age grows with the reading until it reaches
\* the window
ScoreDrift(w, ag, t, e) ==
    IF ag.last_task_at # NoTime /\ t - ag.last_task_at < RECENCY_WINDOW_SEC
    THEN w.recency * e
    ELSE 0

\* the position of candidate a in the list
Pos(cands, a) == CHOOSE i \in 1..Len(cands) : cands[i] = a

\* the sort key of select: descending score, then ascending agent_id
SortsBefore(S, cands, jit, a, b) ==
    LET sa == Score(S.weights, S.agents[a], S.now)
        sb == Score(S.weights, S.agents[b], S.now)
        da == ScoreDrift(S.weights, S.agents[a], S.now, jit[Pos(cands, a)])
        db == ScoreDrift(S.weights, S.agents[b], S.now, jit[Pos(cands, b)])
    IN \/ ScoreGreater(sa, sb)
       \/ ScoreEqual(sa, sb) /\ da > db
       \/ ScoreEqual(sa, sb) /\ da = db /\ a < b

\* (mutant) select ignores the scores and takes the lowest agent id
SelectLowestId(S, cands, jit) ==
    IF Len(cands) = 0 THEN None
    ELSE CHOOSE a \in Range(cands) : \A b \in Range(cands) : a <= b

\* (mutant) select passes over the agents that are stopped
SelectSkipsStopped(S, cands, jit) ==
    LET live == SelectSeq(cands, LAMBDA a : S.agents[a].status # "stopped")
    IN IF Len(live) = 0 THEN None
       ELSE IF Len(live) = 1 THEN live[1]
       ELSE CHOOSE a \in Range(live) :
               \A b \in Range(live) \ {a} : SortsBefore(S, cands, jit, a, b)

\* TaskRouter.select
select(S, cands, jit) ==
    IF Len(cands) = 0 THEN None
    ELSE IF Len(cands) = 1 THEN cands[1]
    ELSE CHOOSE a \in Range(cands) :
            \A b \in Range(cands) \ {a} : SortsBefore(S, cands, jit, a, b)

----------------------------------------------------------------------------
(* Orchestrator (orchestrator/core.py)                                     *)

\* str(uuid.uuid4()): a value no earlier call has produced
Uuid4(S) == S.nextId
TakeId(S) == [S EXCEPT !.nextId = @ + 1]

\* One entry of the trace: an emitted event, or a milestone of execute.
TraceEntry(event, tid, aid, task) ==
    [event |-> event, task_id |-> tid, agent_id |-> aid, task |-> task]

\* the trace with entry e appended to the entries of its task id
Log(tr, e) ==
    [k \in (DOMAIN tr) \cup {e.task_id} |->
        IF k = e.task_id
        THEN (IF k \in DOMAIN tr THEN Append(tr[k], e) ELSE <<e>>)
        ELSE tr[k]]

EventOrder == <<"device_registered", "device_unregistered", "agent_registered",
                "task_dispatched", "task_completed", "orchestrator_started",
                "orchestrator_stopped">>
RECURSIVE Flatten(_)
Flatten(ss) == IF Len(ss) = 0 THEN <<>> ELSE Head(ss) \o Flatten(Tail(ss))

\* the register_device / unregister_device calls made so far
DeviceCalls(S) ==
    SelectSeq(S.ops, LAMBDA o : o.op \in {"register_device", "unregister_device"})

\* Orchestrator.on
on(S, event, cb) ==
    [S EXCEPT !.listeners[event] =
        Append(@, [cb |-> cb, since |-> Len(DeviceCalls(S))])]

\* (mutant) the first callback that raises ends the emission
RECURSIVE CallListenersUntilError(_, _, _)
CallListenersUntilError(subs, k, called) ==
    IF k > Len(subs) THEN called
    ELSE IF ListenerRaises(subs[k].cb) THEN Append(called, subs[k].cb)
    ELSE CallListenersUntilError(subs, k + 1, Append(called, subs[k].cb))

\* _emit_event, lines 232-236: the callbacks of the event are called in
\* list order from position k on; an Exception a callback raises is logged
\* and the loop goes on.  Yields the callbacks called.
RECURSIVE CallListeners(_, _, _)
CallListeners(subs, k, called) ==
    IF k > Len(subs) THEN called
    ELSE CallListeners(subs, k + 1, Append(called, subs[k].cb))

\* (mutant) _emit_event without the try around the callback
NotifyUntilError(S, event, id) ==
    IF Len(S.listeners[event]) = 0 THEN S
    ELSE [S EXCEPT !.heard =
            Append(@, [event |-> event, id |-> id,
                       subs |-> S.listeners[event],
                       called |-> CallListenersUntilError(S.listeners[event],
                                                          1, <<>>),
                       call |-> Len(DeviceCalls(S))])]

\* Orchestrator._emit_event(event, data), id being the id data carries
Notify(S, event, id) ==
    IF Len(S.listeners[event]) = 0 THEN S
    ELSE [S EXCEPT !.heard =
            Append(@, [event |-> event, id |-> id,
                       subs |-> S.listeners[event],
                       called |-> CallListeners(S.listeners[event], 1, <<>>),
                       call |-> Len(DeviceCalls(S))])]

\* _emit_event for an event about a task or an agent: the emission is
\* appended to the trace as well
emit_event(S, event, tid, aid, task) ==
    Notify([S EXCEPT !.trace = Log(@, TraceEntry(event, tid, aid, task))],
           event, IF tid # None THEN tid ELSE aid)

\* Orchestrator.get_agents_by_type
get_agents_by_type(S, type) ==
    SelectSeq(S.registry, LAMBDA a : agent_type(a) = type)

\* (mutant) the record holds the result under "task" and the task name
\* under "result"
TaskRecordSwapped(tid, aid, task, result) ==
    [task_id |-> tid, agent_id |-> aid, task |-> result, result |-> task]

\* the record dispatch_task stores (lines 126-132); its timestamp, which
\* nothing in the program reads, is left out
TaskRecord(tid, aid, task, result) ==
    [task_id |-> tid, agent_id |-> aid, task |-> task, result |-> result]
\* dict.get on an absent key
NoRecord == TaskRecord(None, None, "none", "none")

\* Orchestrator.get_task_result
get_task_result(S, tid) ==
    IF tid \in DOMAIN S.task_results THEN S.task_results[tid] ELSE NoRecord

\* (mutant) the map keeps the latest record only
StoreResultOnly(S, tid, rec) ==
    [S EXCEPT !.task_results = [k \in {tid} |-> rec]]

\* self._task_results[tid] = rec
StoreResult(S, tid, rec) ==
    [S EXCEPT !.task_results =
        [k \in (DOMAIN @) \cup {tid} |-> IF k = tid THEN rec ELSE @[k]]]

\* the dispatch_task invocations whose execute is awaiting the handler of
\* agent a
InFlight(S, a) ==
    {d \in DOMAIN S.disp : S.disp[d].agent_id = a /\ S.disp[d].phase = "executing"}

\* marks the invocations in ds as having shared their agent with another
\* execute or a stop
Disturb(D, ds) ==
    [d \in DOMAIN D |-> IF d \in ds THEN [D[d] EXCEPT !.disturbed = TRUE] ELSE D[d]]

\* AgentBase.execute up to the await of the handler (lines 82-85), called
\* by dispatch_task tid of call c (c = None: called directly).  The record
\* keeps the agent's fields as execute found them (before), as they were
\* when the handler ended (pre_end) and as execute left them (after).
execute_begin(S, c, tid, a, task) ==
    LET others == InFlight(S, a)
        rec == [call |-> c, agent_id |-> a, task |-> task, phase |-> "executing",
                before |-> S.agents[a], pre_end |-> S.agents[a],
                after |-> S.agents[a],
                disturbed |-> others # {},
                handler |-> NoOutcome, exec |-> NoOutcome, out |-> NoOutcome]
        D == Disturb(S.disp, others)
    IN [S EXCEPT !.agents[a] = ExecuteBegin(@, S.now),
                 !.disp = [k \in (DOMAIN D) \cup {tid} |->
                              IF k = tid THEN rec ELSE D[k]],
                 !.trace = Log(@, TraceEntry("execute_begin", tid, a, task))]

\* (mutant) execute adds one to the counters it read when it began, so of
\* two overlapping executes one update is lost
ExecuteEndStale(S, tid, h) ==
    LET d == S.disp[tid]
        a == d.agent_id
        ok == h.kind = "returned"
        ag == IF ok THEN [S.agents[a] EXCEPT
                             !.tasks_completed = d.before.tasks_completed + 1,
                             !.status = "idle"]
              ELSE [S.agents[a] EXCEPT
                       !.tasks_failed = d.before.tasks_failed + 1,
                       !.status = "error"]
    IN [S EXCEPT !.agents[a] = ag,
                 !.disp[tid] = [d EXCEPT !.phase = "finished", !.handler = h,
                                         !.pre_end = S.agents[a],
                                         !.after = ag,
                                         !.exec = IF ok THEN ExecuteReturn(h)
                                                  ELSE ExecuteRaise(h)],
                 !.trace = Log(@, TraceEntry(IF ok THEN "execute_returned"
                                             ELSE "execute_raised",
                                             tid, a, d.task))]

\* AgentBase.execute after the handler ended with h (lines 86-93)
execute_end(S, tid, h) ==
    LET d == S.disp[tid]
        a == d.agent_id
        ok == h.kind = "returned"
        ag == IF ok THEN ExecuteSuccess(S.agents[a]) ELSE ExecuteFailure(S.agents[a])
    IN [S EXCEPT !.agents[a] = ag,
                 !.disp[tid] = [d EXCEPT !.phase = "finished", !.handler = h,
                                         !.pre_end = S.agents[a],
                                         !.after = ag,
                                         !.exec = IF ok THEN ExecuteReturn(h)
                                                  ELSE ExecuteRaise(h)],
                 !.trace = Log(@, TraceEntry(IF ok THEN "execute_returned"
                                             ELSE "execute_raised",
                                             tid, a, d.task))]

\* (mutant) execute is begun before task_dispatched is emitted
DispatchStartEmitsLate(S, c, agent_id, task) ==
    LET tid == Uuid4(S)
        S1 == execute_begin(TakeId(S), c, tid, agent_id, task)
    IN emit_event(S1, "task_dispatched", tid, agent_id, task)

\* dispatch_task lines 116-125: fresh task id, task_dispatched, then execute
DispatchStart(S, c, agent_id, task) ==
    LET tid == Uuid4(S)
        S1 == emit_event(TakeId(S), "task_dispatched", tid, agent_id, task)
    IN execute_begin(S1, c, tid, agent_id, task)

\* dispatch_task lines 126-134, reached only when execute returned
DispatchStore(S, tid) ==
    LET d == S.disp[tid]
        rec == TaskRecord(tid, d.agent_id, d.task, d.exec.val)
        S1 == [StoreResult(S, tid, rec) EXCEPT
                  !.trace = Log(@, TraceEntry("result_stored", tid,
                                              d.agent_id, d.task))]
        S2 == emit_event(S1, "task_completed", tid, d.agent_id, d.task)
    IN [S2 EXCEPT !.disp[tid].out = Outcome("returned", "task_id", tid)]

\* (mutant) dispatch_task catches the error of execute, stores it as the
\* result and returns the task id
DispatchSwallowsFailure(S, tid) == DispatchStore(S, tid)

\* dispatch_task after execute ended: an error of execute is not caught
\* and leaves dispatch_task at line 125
DispatchAfterExecute(S, tid) ==
    IF S.disp[tid].exec.kind = "returned"
    THEN DispatchStore(S, tid)
    ELSE [S EXCEPT !.disp[tid].out = S.disp[tid].exec]

\* A call of dispatch_task, route_task or broadcast_task as its caller sees
\* it: arguments, where it stands, and what it handed back.
NewCall(op, agent_id, type, task) ==
    [op |-> op, agent_id |-> agent_id, type |-> type, task |-> task,
     pc |-> "called", cands |-> <<>>, selected |-> None, outer |-> None,
     coro |-> [agent_id |-> None, task |-> "none"],
     tids |-> <<>>, gather |-> NoOutcome, out |-> NoOutcome, ids |-> <<>>]

\* the call ends: it returns or raises what o says
EndCall(S, c, o) == [S EXCEPT !.calls[c].pc = o.kind, !.calls[c].out = o]

\* (mutant) dispatch_task emits task_dispatched before it looks the agent up
DispatchEmitsBeforeLookup(S, c, agent_id, task) ==
    IF agent_id \notin Range(S.registry)
    THEN [emit_event(TakeId(S), "task_dispatched", Uuid4(S), agent_id, task)
             EXCEPT !.ret = Outcome("raised", "UnknownAgent", None)]
    ELSE [DispatchStart(S, c, agent_id, task) EXCEPT
             !.ret = Outcome("suspended", "none", Uuid4(S))]

\* dispatch_task from its first line to its first suspension: an unknown
\* agent id raises ValueError (lines 112-114), otherwise the coroutine is
\* suspended in the handler of the agent
dispatch_task(S, c, agent_id, task) ==
    IF agent_id \notin Range(S.registry)
    THEN [S EXCEPT !.ret = Outcome("raised", "UnknownAgent", None)]
    ELSE [DispatchStart(S, c, agent_id, task) EXCEPT
             !.ret = Outcome("suspended", "none", Uuid4(S))]

\* a direct call of dispatch_task, as call c
DispatchCall(S, c, agent_id, task) ==
    LET S1 == dispatch_task(S, c, agent_id, task)
    IN IF S1.ret.kind = "raised"
       THEN EndCall(S1, c, S1.ret)
       ELSE [S1 EXCEPT !.calls[c].pc = "running",
                       !.calls[c].tids = <<S1.ret.id>>]

\* (mutant) run_next takes the head of the queue without removing it
RunNextPeeks(S, c) ==
    LET head == S.queue[1]
        S1 == [S EXCEPT !.calls[c].coro = head.coro]
    IN IF S1.sem > 0
       THEN dispatch_task([S1 EXCEPT !.sem = @ - 1], c,
                          head.coro.agent_id, head.coro.task)
       ELSE [S1 EXCEPT !.ret = Outcome("suspended", "semaphore", None)]

\* TaskScheduler.run_next from the pop to the first suspension (lines
\* 57-61): the popped coroutine is awaited once a slot is free
run_next(S, c) ==
    LET popped == heappop(S.queue)
        S1 == [S EXCEPT !.queue = popped.heap, !.calls[c].coro = popped.item.coro]
    IN IF S1.sem > 0
       THEN dispatch_task([S1 EXCEPT !.sem = @ - 1], c,
                          popped.item.coro.agent_id, popped.item.coro.task)
       ELSE [S1 EXCEPT !.ret = Outcome("suspended", "semaphore", None)]

\* (mutant) route_task enqueues the task before it looks for candidates
RouteSchedulesFirst(S, c, type, task, priority, jit) ==
    LET candidates == get_agents_by_type(S, type)
        agent == select(S, candidates, jit)
        task_id == Uuid4(S)
        S1 == [TakeId(S) EXCEPT !.calls[c].cands = candidates,
                                !.calls[c].selected = agent,
                                !.calls[c].outer = task_id]
        S2 == schedule(S1, [agent_id |-> agent, task |-> task], task_id, priority)
        S3 == run_next(S2, c)
    IN IF Len(candidates) = 0
       THEN EndCall(S2, c, Outcome("raised", "NoCandidateAgents", None))
       ELSE [S3 EXCEPT !.calls[c].pc = "running", !.calls[c].tids = <<S3.ret.id>>]

\* route_task lines 194-208 up to the first suspension
route_task(S, c, type, task, priority, jit) ==
    LET candidates == get_agents_by_type(S, type)
        agent == select(S, candidates, jit)
        task_id == Uuid4(S)
        S1 == [TakeId(S) EXCEPT !.calls[c].cands = candidates,
                                !.calls[c].selected = agent,
                                !.calls[c].outer = task_id]
        S2 == schedule(S1, [agent_id |-> agent, task |-> task], task_id, priority)
        S3 == run_next(S2, c)
    IN IF Len(candidates) = 0
       THEN EndCall(S, c, Outcome("raised", "NoCandidateAgents", None))
       ELSE IF agent = None
       THEN EndCall(S, c, Outcome("raised", "NoSelection", None))
       ELSE IF S3.ret.kind = "raised"
       THEN EndCall([S3 EXCEPT !.sem = @ + 1], c, S3.ret)
       ELSE IF S3.ret.id = None
       THEN [S3 EXCEPT !.calls[c].pc = "acquire"]
       ELSE [S3 EXCEPT !.calls[c].pc = "running", !.calls[c].tids = <<S3.ret.id>>]

\* (mutant) route_task returns without exposing the result under its own id
RouteResumeNoAlias(S, c, tid) ==
    LET o == S.disp[tid].out
        S1 == [S EXCEPT !.sem = @ + 1]
    IN IF o.kind = "raised" THEN EndCall(S1, c, o)
       ELSE EndCall(S1, c, Outcome("returned", "task_id", o.id))

\* (mutant) the slot is released only when the dispatch returned
RouteResumeKeepsSlot(S, c, tid) ==
    LET o == S.disp[tid].out
        S1 == [S EXCEPT !.sem = @ + 1]
        inner_id == o.id
        task_id == S.calls[c].outer
        S2 == IF inner_id # None /\ inner_id # task_id
              THEN StoreResult(S1, task_id, get_task_result(S1, inner_id))
              ELSE S1
    IN IF o.kind = "raised"
       THEN EndCall(S, c, o)
       ELSE EndCall(S2, c, Outcome("returned", "task_id",
                                   IF inner_id # None THEN inner_id ELSE task_id))

\* route_task after the awaited dispatch tid ended: run_next leaves the
\* semaphore block (line 60), then lines 208-217
RouteResume(S, c, tid) ==
    LET o == S.disp[tid].out
        S1 == [S EXCEPT !.sem = @ + 1]
        inner_id == o.id
        task_id == S.calls[c].outer
        S2 == IF inner_id # None /\ inner_id # task_id
              THEN StoreResult(S1, task_id, get_task_result(S1, inner_id))
              ELSE S1
    IN IF o.kind = "raised"
       THEN EndCall(S1, c, o)
       ELSE EndCall(S2, c, Outcome("returned", "task_id",
                                   IF inner_id # None THEN inner_id ELSE task_id))

\* asyncio.gather, as broadcast_task calls it (return_exceptions=False):
\* when a child ends, the first error settles the gathered future, and so
\* does the last child to return
GatherChildDone(S, c, tid) ==
    LET o == S.disp[tid].out
    IN IF S.calls[c].gather.kind # "none" THEN S
       ELSE IF o.kind = "raised" THEN [S EXCEPT !.calls[c].gather = o]
       ELSE IF \A t \in Range(S.calls[c].tids) : S.disp[t].out.kind = "returned"
       THEN [S EXCEPT !.calls[c].gather = Outcome("returned", "list", None)]
       ELSE S

\* what the awaiting caller of dispatch tid does once it has ended: a direct
\* dispatch_task call and route_task resume in the same step; a dispatch
\* started by gather is a Task of its own, and broadcast_task resumes later
CallResume(S, tid) ==
    LET c == S.disp[tid].call
    IN IF S.calls[c].op = "dispatch" THEN EndCall(S, c, S.disp[tid].out)
       ELSE IF S.calls[c].op = "route" THEN RouteResume(S, c, tid)
       ELSE GatherChildDone(S, c, tid)

\* broadcast_task lines 143-148 up to the await of gather
broadcast_task(S, c, type, task) ==
    LET agts == get_agents_by_type(S, type)
    IN IF Len(agts) = 0
       THEN [EndCall(S, c, Outcome("returned", "list", None)) EXCEPT
                !.calls[c].ids = <<>>]
       ELSE [S EXCEPT !.calls[c].pc = "gather", !.calls[c].cands = agts]

\* the Tasks gather created run their first step one after the other, in
\* the order of the argument list: dispatch_task for agts[i], i = n..Len
RECURSIVE GatherStart(_, _, _)
GatherStart(S, c, n) ==
    IF n > Len(S.calls[c].cands) THEN [S EXCEPT !.calls[c].pc = "running"]
    ELSE LET S1 == dispatch_task(S, c, S.calls[c].cands[n], S.calls[c].task)
         IN GatherStart([S1 EXCEPT !.calls[c].tids = Append(@, S1.ret.id)], c, n + 1)

\* broadcast_task does not catch the error gather raises (line 147)
GatherRaise(S, c) == EndCall(S, c, S.calls[c].gather)

\* all dispatches returned: gather hands their task ids over in argument
\* order and broadcast_task returns the list (lines 147-150)
GatherReturn(S, c) ==
    [EndCall(S, c, Outcome("returned", "list", None)) EXCEPT
        !.calls[c].ids = [i \in 1..Len(S.calls[c].tids) |->
                             S.disp[S.calls[c].tids[i]].out.id]]

\* Orchestrator.register_agent
register_agent(S, a) ==
    IF a \in Range(S.registry) THEN S
    ELSE emit_event([S EXCEPT !.registry = Append(@, a)],
                    "agent_registered", None, a, "none")

\* one call of register_device, unregister_device, start or stop
\* (start and stop: targets are the agents whose coroutines gather was
\* given, started those whose coroutine has run, raised those whose hook
\* raised)
\* (ping: probe is how the probe ended)
NewOp(op, id, obj) == [op |-> op, id |-> id, obj |-> obj, pc |-> "called",
                       out |-> "none", targets |-> <<>>, started |-> <<>>,
                       raised |-> {}, probe |-> "none"]
EndOp(S, k, out) == [S EXCEPT !.ops[k].pc = "returned", !.ops[k].out = out]

HasDevice(S, d) == \E k \in 1..Len(S.devices) : S.devices[k].device_id = d

\* (mutant) a second registration binds the id to the new object
RegisterDeviceRebinds(S, k, d, o) ==
    IF HasDevice(S, d)
    THEN EndOp([S EXCEPT !.devices =
                   [j \in DOMAIN @ |-> IF @[j].device_id = d
                                       THEN [device_id |-> d, obj |-> o]
                                       ELSE @[j]]], k, "duplicate")
    ELSE EndOp(Notify([S EXCEPT !.devices =
                          Append(@, [device_id |-> d, obj |-> o])],
                      "device_registered", d), k, "added")

\* (mutant) the event is emitted for a duplicate registration as well
RegisterDeviceEmitsAlways(S, k, d, o) ==
    IF HasDevice(S, d)
    THEN EndOp(Notify(S, "device_registered", d), k, "duplicate")
    ELSE EndOp(Notify([S EXCEPT !.devices =
                          Append(@, [device_id |-> d, obj |-> o])],
                      "device_registered", d), k, "added")

\* Orchestrator.register_device, called as call k with the device object o
\* whose device_id is d
register_device(S, k, d, o) ==
    IF HasDevice(S, d)
    THEN EndOp(S, k, "duplicate")
    ELSE EndOp(Notify([S EXCEPT !.devices =
                          Append(@, [device_id |-> d, obj |-> o])],
                      "device_registered", d), k, "added")

\* (mutant) unregister_device without the event
UnregisterDeviceSilent(S, k, d) ==
    IF ~HasDevice(S, d)
    THEN EndOp(S, k, "absent")
    ELSE EndOp([S EXCEPT !.devices = SelectSeq(@, LAMBDA e : e.device_id # d)],
               k, "removed")

\* Orchestrator.unregister_device
unregister_device(S, k, d) ==
    IF ~HasDevice(S, d)
    THEN EndOp(S, k, "absent")
    ELSE EndOp(Notify([S EXCEPT !.devices =
                          SelectSeq(@, LAMBDA e : e.device_id # d)],
                      "device_unregistered", d), k, "removed")

\* Orchestrator.get_device: the object bound to d, or None
get_device(S, d) ==
    IF HasDevice(S, d)
    THEN (CHOOSE e \in Range(S.devices) : e.device_id = d).obj
    ELSE None

\* a _health_check_loop task that has not run yet
NewLoop == [pc |-> "new", iter |-> <<>>, idx |-> 0, cur |-> <<1, 1>>,
            pinged |-> <<>>,
            results |-> <<>>, quiet |-> TRUE, cycles |-> 0,
            last |-> [at_start |-> <<>>, pinged |-> <<>>, results |-> <<>>,
                      quiet |-> TRUE]]

\* (mutant) gather without return_exceptions: the error of a start hook
\* ends start
StartResumeRaises(S, k) ==
    IF S.ops[k].raised # {} THEN EndOp(S, k, "raised")
    ELSE EndOp(Notify([S EXCEPT !.loops = Append(@, NewLoop)],
                      "orchestrator_started", None), k, "started")

\* Orchestrator.start after the agents were started (lines 254-255): the
\* errors gather collected are dropped
StartResume(S, k) ==
    EndOp(Notify([S EXCEPT !.loops = Append(@, NewLoop)],
                 "orchestrator_started", None), k, "started")

\* Orchestrator.start up to the await of gather (lines 244-252); gather
\* of no coroutine is done at once
StartCall(S, k) ==
    IF S.running THEN EndOp(S, k, "already_running")
    ELSE IF Len(S.registry) = 0
    THEN StartResume([S EXCEPT !.running = TRUE], k)
    ELSE [S EXCEPT !.running = TRUE, !.ops[k].pc = "gather",
                   !.ops[k].targets = S.registry]

\* The Tasks gather made of a.start() for every agent that was registered
\* when start was called run, each to its end: start sets the status and
\* awaits the hook _on_start, which raises for the agents in raising (the
\* hook of AgentBase is empty; a subclass may override it)
StartAgents(S, k, raising) ==
    [S EXCEPT !.agents = [a \in DOMAIN @ |->
                             IF a \in Range(S.ops[k].targets)
                             THEN AgentStartEffect(@[a]) ELSE @[a]],
              !.ops[k].started = S.ops[k].targets,
              !.ops[k].raised = raising,
              !.ops[k].pc = "ready"]

\* the Tasks gather made of a.stop() for every agent that was registered
\* when stop was called run, each to its end
StopAgents(S, k, raising) ==
    [S EXCEPT !.agents = [a \in DOMAIN @ |->
                             IF a \in Range(S.ops[k].targets)
                             THEN AgentStopEffect(@[a]) ELSE @[a]],
              !.disp = Disturb(@, UNION {InFlight(S, a) :
                                           a \in Range(S.ops[k].targets)}),
              !.ops[k].started = S.ops[k].targets,
              !.ops[k].raised = raising,
              !.ops[k].pc = "ready"]

\* Orchestrator.stop after the agents were stopped (lines 263-264)
StopResume(S, k) ==
    EndOp(Notify(S, "orchestrator_stopped", None), k, "stopped")

\* Orchestrator.stop up to the await of gather (lines 259-262)
StopCall(S, k) ==
    IF ~S.running THEN EndOp(S, k, "not_running")
    ELSE IF Len(S.registry) = 0
    THEN StopResume([S EXCEPT !.running = FALSE], k)
    ELSE [S EXCEPT !.running = FALSE, !.ops[k].pc = "gather",
                   !.ops[k].targets = S.registry]

\* ESP32Device.ping, lines 73-75: no address is configured
PingNoAddress(dev) == [dev EXCEPT !.status = "offline"]

\* (mutant) ping refreshes last_seen whatever the probe says
PingProbedAlwaysSeen(dev, probe, t) ==
    IF probe = "zero" THEN [dev EXCEPT !.status = "online", !.last_seen = t]
    ELSE [dev EXCEPT !.status = "offline", !.last_seen = t]

\* ESP32Device.ping, lines 76-93, once the probe has ended at time t
PingProbed(dev, probe, t) ==
    IF probe = "zero" THEN [dev EXCEPT !.status = "online", !.last_seen = t]
    ELSE [dev EXCEPT !.status = "offline"]

\* what ping returns
PingResult(probe) == IF probe = "zero" THEN "true" ELSE "false"

\* a direct call of ping (as routes.py makes it) on the device object
\* (d, o), up to the await of the probe
PingBegin(S, k, d, o) ==
    IF ~S.devstate[<<d, o>>].ip
    THEN EndOp([S EXCEPT !.devstate[<<d, o>>] = PingNoAddress(@)], k, "false")
    ELSE [S EXCEPT !.ops[k].pc = "probe"]

\* the probe of the direct ping k has ended
PingEnd(S, k, probe) ==
    EndOp([S EXCEPT !.devstate[<<S.ops[k].id, S.ops[k].obj>>] =
                       PingProbed(@, probe, S.now),
                    !.ops[k].probe = probe], k, PingResult(probe))

\* what a ping of the health check that ended with res did to the device
HealthPing(dev, res, t) ==
    IF res = "online" THEN PingProbed(dev, "zero", t)
    ELSE IF res = "offline" THEN PingProbed(dev, "nonzero", t)
    ELSE dev

\* (mutant) the devices that have been seen online
GetDevicesSeen(S) ==
    SelectSeq(S.devices,
              LAMBDA e : S.devstate[<<e.device_id, e.obj>>].last_seen # NoTime)

\* Orchestrator.get_online_devices
get_online_devices(S) ==
    SelectSeq(S.devices,
              LAMBDA e : S.devstate[<<e.device_id, e.obj>>].status = "online")

\* _health_check_loop at the head of its while loop (line 268)
LoopHead(S, l) ==
    IF S.running THEN [S EXCEPT !.loops[l].pc = "sleeping"]
    ELSE [S EXCEPT !.loops[l].pc = "ended"]

\* the for loop is over (line 270): the cycle is complete
CycleEnd(S, l) ==
    LoopHead([S EXCEPT !.loops[l].cycles = @ + 1,
                       !.loops[l].last =
                          [at_start |-> [j \in DOMAIN S.loops[l].iter |->
                                            S.loops[l].iter[j].device_id],
                           pinged |-> S.loops[l].pinged,
                           results |-> S.loops[l].results,
                           quiet |-> S.loops[l].quiet]], l)

\* The for loop from position idx on (lines 270-274): the device there is
\* pinged.  A device without an address is set offline by ping without a
\* suspension, and the loop goes on to the next device in the same step;
\* the ping of a device with an address suspends the task.
RECURSIVE PingFrom(_, _, _)
PingFrom(S, l, idx) ==
    IF idx > Len(S.loops[l].iter) THEN CycleEnd(S, l)
    ELSE LET e == S.devices[idx]
             key == <<e.device_id, e.obj>>
             S1 == [S EXCEPT !.loops[l].idx = idx,
                             !.loops[l].pinged = Append(@, e.device_id)]
         IN IF ~S.devstate[key].ip
            THEN PingFrom([S1 EXCEPT !.devstate[key] = PingNoAddress(@),
                                     !.loops[l].results = Append(@, "offline")],
                          l, idx + 1)
            ELSE [S1 EXCEPT !.loops[l].pc = "pinging", !.loops[l].cur = key]

\* the sleep is over (line 269): the iteration over self._devices.values()
\* begins, and the first device is pinged
SleepOver(S, l) ==
    PingFrom([S EXCEPT !.loops[l].iter = S.devices, !.loops[l].idx = 1,
                       !.loops[l].pinged = <<>>, !.loops[l].results = <<>>,
                       !.loops[l].quiet = TRUE], l, 1)

\* The ping of the device at position idx (lines 271-274) is over with
\* res; what it returned is dropped and an Exception it raised is caught
\* (only the log tells them apart: results), so the for
\* loop asks the iterator for the next device either way.  A dict whose
\* size has changed since the iteration began makes the iterator raise
\* RuntimeError, which nothing catches: the task dies.  When the size is
\* the same but the entries are not, the iterator may raise or go on
\* (goes_on), depending on the layout of the dict.
PingOver(S, l, res, goes_on) ==
    LET lp == S.loops[l]
        S1 == [S EXCEPT !.loops[l].quiet = @ /\ (S.devices = lp.iter),
                        !.loops[l].results = Append(@, res),
                        !.devstate[lp.cur] = HealthPing(@, res, S.now)]
    IN IF Len(S.devices) # Len(lp.iter) \/ (S.devices # lp.iter /\ ~goes_on)
       THEN [S1 EXCEPT !.loops[l].pc = "dead"]
       ELSE PingFrom(S1, l, lp.idx + 1)

----------------------------------------------------------------------------
(* The actions: one per section of code the event loop runs               *)
(* uninterrupted.                                                          *)

NextCall == Len(calls) + 1
AddCall(op, agent_id, type, task) ==
    [St EXCEPT !.calls = Append(@, NewCall(op, agent_id, type, task))]

\* The program registers its agents when it builds the orchestrator
\* (main.py, build_orchestrator), before it dispatches a task.
RegisterAgent(a) ==
    /\ calls = <<>>
    /\ Commit(register_agent(St, a))
    /\ UNCHANGED lifecycle

DispatchTask(agent_id, task) ==
    /\ Len(calls) < MaxCalls
    /\ Commit(DispatchCall(AddCall("dispatch", agent_id, "none", task),
                           NextCall, agent_id, task))
    /\ UNCHANGED lifecycle

RouteTask(type, task, priority) ==
    /\ Len(calls) < MaxCalls
    /\ \E jit \in Jitters(Len(get_agents_by_type(St, type))) :
          Commit(route_task(AddCall("route", None, type, task), NextCall,
                            type, task, priority, jit))
    /\ UNCHANGED lifecycle

BroadcastTask(type, task) ==
    /\ Len(calls) < MaxCalls
    /\ Commit(broadcast_task(AddCall("broadcast", None, type, task), NextCall,
                             type, task))
    /\ UNCHANGED lifecycle

BroadcastStart(c) ==
    /\ calls[c].pc = "gather"
    /\ Commit(GatherStart(St, c, 1))
    /\ UNCHANGED lifecycle

\* the handler of dispatch tid ends with h; execute, dispatch_task and the
\* caller awaiting it run on
HandlerEnds(tid, h) ==
    /\ disp[tid].phase = "executing"
    /\ disp[tid].call # None
    /\ h \in HandlerOutcomes(disp[tid].agent_id, disp[tid].task)
    /\ Commit(CallResume(DispatchAfterExecute(execute_end(St, tid, h), tid), tid))
    /\ UNCHANGED lifecycle

BroadcastReturn(c) ==
    /\ calls[c].op = "broadcast"
    /\ calls[c].pc = "running"
    /\ calls[c].gather.kind = "returned"
    /\ Commit(GatherReturn(St, c))
    /\ UNCHANGED lifecycle

BroadcastRaise(c) ==
    /\ calls[c].op = "broadcast"
    /\ calls[c].pc = "running"
    /\ calls[c].gather.kind = "raised"
    /\ Commit(GatherRaise(St, c))
    /\ UNCHANGED lifecycle

\* a direct call of AgentBase.execute (as the agent tests make it), up to
\* the await of the handler
ExecuteCall(a, task) ==
    /\ Cardinality(DOMAIN disp) < MaxExec
    /\ Commit(execute_begin(TakeId(St), None, Uuid4(St), a, task))
    /\ UNCHANGED lifecycle

\* the handler of the direct execute k ends with h
ExecuteEnds(k, h) ==
    /\ disp[k].phase = "executing"
    /\ disp[k].call = None
    /\ h \in HandlerOutcomes(disp[k].agent_id, disp[k].task)
    /\ Commit(execute_end(St, k, h))
    /\ UNCHANGED lifecycle

\* a direct call of AgentBase.start
AgentStart(a) ==
    /\ lifecycle < MaxLifecycle
    /\ lifecycle' = lifecycle + 1
    /\ Commit([St EXCEPT !.agents[a] = AgentStartEffect(@)])

\* a direct call of AgentBase.stop
AgentStop(a) ==
    /\ lifecycle < MaxLifecycle
    /\ lifecycle' = lifecycle + 1
    /\ Commit([St EXCEPT !.agents[a] = AgentStopEffect(@),
                         !.disp = Disturb(@, InFlight(St, a))])

\* a direct call of TaskRouter.select (as the router tests make it) with a
\* list of distinct agents
SelectCall(cands, jit) ==
    /\ Len(picks) < MaxSelect
    /\ Commit([St EXCEPT !.picks =
                  Append(@, [cands |-> cands, jit |-> jit,
                             agent |-> select(St, cands, jit)])])
    /\ UNCHANGED lifecycle

\* a direct call of TaskScheduler.schedule
Schedule(priority) ==
    /\ Len(items) < MaxItems
    /\ Commit(ScheduleItem(St, priority))
    /\ UNCHANGED lifecycle

\* a direct call of TaskScheduler.run_next
RunNext ==
    /\ Len(runs) < MaxRuns
    /\ Commit(SchedRunNext([St EXCEPT !.runs = Append(@, NewRun("run_next"))],
                           Len(runs) + 1))
    /\ UNCHANGED lifecycle

\* a run_next that waits for the semaphore gets it
RunNextAcquire(r) ==
    /\ runs[r].pc = "acquire"
    /\ sem > 0
    /\ Commit(SchedAcquire(St, r))
    /\ UNCHANGED lifecycle

\* a direct call of TaskScheduler.run_all
RunAll ==
    /\ Len(runs) < MaxRuns
    /\ Commit(RunAllLoop([St EXCEPT !.runs = Append(@, NewRun("run_all"))],
                         Len(runs) + 1))
    /\ UNCHANGED lifecycle

\* the Tasks of the batch of run_all r start
RunAllStart(r) ==
    /\ runs[r].pc = "gather"
    /\ Commit(BatchStart(St, r, 1))
    /\ UNCHANGED lifecycle

\* a scheduled coroutine that is running ends with o
ItemEnds(i, o) ==
    /\ items[i].state = "running"
    /\ Commit(ItemDone(St, i, o))
    /\ UNCHANGED lifecycle

\* every Task of the batch is done: run_all r collects and loops
RunAllResume(r) ==
    /\ runs[r].op = "run_all"
    /\ runs[r].pc = "awaiting"
    /\ \A k \in 1..Len(runs[r].batch) : items[runs[r].batch[k]].state = "done"
    /\ Commit(RunAllLoop(BatchDone(St, r), r))
    /\ UNCHANGED lifecycle

\* time passes
Tick ==
    /\ now + TickSec <= MaxTime
    /\ Commit([St EXCEPT !.now = @ + TickSec])
    /\ UNCHANGED lifecycle

----------------------------------------------------------------------------
\* An orchestrator as its constructor leaves it, no call made
OrchestratorInit ==
    /\ agents = [a \in AgentIds |-> NewAgent]
    /\ registry = <<>>
    /\ task_results = EmptyMap
    /\ queue = <<>>
    /\ sem = max_concurrent
    /\ nextId = 1
    /\ now = 0
    /\ calls = <<>>
    /\ disp = EmptyMap
    /\ trace = EmptyMap
    /\ lifecycle = 0
    /\ weights = TaskRouterInit(NoOverride)
    /\ picks = <<>>
    /\ cap = max_concurrent
    /\ items = <<>>
    /\ runs = <<>>
    /\ devices = <<>>
    /\ listeners = [ev \in EventNames |-> <<>>]
    /\ heard = <<>>
    /\ running = FALSE
    /\ loops = <<>>
    /\ ops = <<>>

\* every device object has an address and is as its constructor left it
Init ==
    /\ OrchestratorInit
    /\ devstate = [key \in DeviceKeys |-> NewDevice(TRUE)]

\* The lists of distinct agents a caller may pass to select
CandidateLists ==
    {l \in UNION {[1..n -> AgentIds] : n \in 0..Cardinality(AgentIds)} :
        \A i, j \in 1..Len(l) : l[i] = l[j] => i = j}

\* The states an agent object can be in when select scores it: the
\* statuses TaskRouter._AVAILABILITY tells apart, a short history, and a
\* last task that is none, a window ago or inside the window.  execute
\* sets last_task_at before it counts, so an agent with a history has one.
RouterAgentStates ==
    {ag \in {[status |-> st, tasks_completed |-> h[1], tasks_failed |-> h[2],
              last_task_at |-> l] :
                st \in {"idle", "busy", "error", "stopped"},
                h \in {<<0, 0>>, <<1, 0>>, <<1, 1>>},
                l \in {NoTime, 0, MaxLastTask}} :
        ag.tasks_completed + ag.tasks_failed > 0 => ag.last_task_at # NoTime}

\* A TaskRouter built with some override, and agents in some state: either
\* the default weights with any agent states, or any override with agents
\* that are new or have failed their only task
InitRouter ==
    /\ \E o \in Overrides, ags \in [AgentIds \ {3} -> RouterAgentStates] :
          /\ \/ o = NoOverride
             \/ \A a \in DOMAIN ags :
                   ags[a] \in {NewAgent,
                               [status |-> "error", tasks_completed |-> 0,
                                tasks_failed |-> 1, last_task_at |-> 0]}
          /\ weights = TaskRouterInit(o)
          /\ agents = [a \in AgentIds |-> IF a \in DOMAIN ags THEN ags[a]
                                          ELSE NewAgent]
    /\ registry = <<>>
    /\ task_results = EmptyMap
    /\ queue = <<>>
    /\ sem = max_concurrent
    /\ nextId = 1
    /\ now = RouterClock
    /\ calls = <<>>
    /\ disp = EmptyMap
    /\ trace = EmptyMap
    /\ lifecycle = 0
    /\ picks = <<>>
    /\ cap = max_concurrent
    /\ items = <<>>
    /\ runs = <<>>
    /\ devices = <<>>
    /\ listeners = [ev \in EventNames |-> <<>>]
    /\ heard = <<>>
    /\ running = FALSE
    /\ loops = <<>>
    /\ ops = <<>>
    /\ devstate = [key \in DeviceKeys |-> NewDevice(TRUE)]

\* how a scheduled coroutine of item i may end
\* a call of Orchestrator.on with a callback not yet subscribed to the
\* event
On(event, cb) ==
    /\ Len(Flatten([j \in 1..Len(EventOrder) |-> listeners[EventOrder[j]]]))
          < MaxOn
    /\ \A j \in 1..Len(listeners[event]) : listeners[event][j].cb # cb
    /\ Commit(on(St, event, cb))
    /\ UNCHANGED lifecycle

NextOp == Len(ops) + 1
AddOp(op, id, obj) == [St EXCEPT !.ops = Append(@, NewOp(op, id, obj))]
StartStops == SelectSeq(ops, LAMBDA o : o.op \in {"start", "stop"})

\* a call of register_device with the device object o whose id is d
RegisterDevice(d, o) ==
    /\ Len(DeviceCalls(St)) < MaxDevCalls
    /\ Commit(register_device(AddOp("register_device", d, o), NextOp, d, o))
    /\ UNCHANGED lifecycle

UnregisterDevice(d) ==
    /\ Len(DeviceCalls(St)) < MaxDevCalls
    /\ Commit(unregister_device(AddOp("unregister_device", d, None), NextOp, d))
    /\ UNCHANGED lifecycle

\* a call of Orchestrator.start, up to its first suspension
StartUpTo(n) ==
    /\ Len(StartStops) < n
    /\ Commit(StartCall(AddOp("start", None, None), NextOp))
    /\ UNCHANGED lifecycle

OrchestratorStart == StartUpTo(MaxStartStop)

\* the agents' start() tasks run
StartGather(k, raising) ==
    /\ ops[k].op = "start"
    /\ ops[k].pc = "gather"
    /\ raising \subseteq Range(ops[k].targets)
    /\ Commit(StartAgents(St, k, raising))
    /\ UNCHANGED lifecycle

StartReturns(k) ==
    /\ ops[k].op = "start"
    /\ ops[k].pc = "ready"
    /\ Commit(StartResume(St, k))
    /\ UNCHANGED lifecycle

\* a call of Orchestrator.stop, up to its first suspension
StopUpTo(n) ==
    /\ Len(StartStops) < n
    /\ Commit(StopCall(AddOp("stop", None, None), NextOp))
    /\ UNCHANGED lifecycle

OrchestratorStop == StopUpTo(MaxStartStop)

\* the agents' stop() tasks run
StopGather(k, raising) ==
    /\ ops[k].op = "stop"
    /\ ops[k].pc = "gather"
    /\ raising \subseteq Range(ops[k].targets)
    /\ Commit(StopAgents(St, k, raising))
    /\ UNCHANGED lifecycle

StopReturns(k) ==
    /\ ops[k].op = "stop"
    /\ ops[k].pc = "ready"
    /\ Commit(StopResume(St, k))
    /\ UNCHANGED lifecycle

\* the health-check task l runs for the first time
LoopBegins(l) ==
    /\ loops[l].pc = "new"
    /\ Commit(LoopHead(St, l))
    /\ UNCHANGED lifecycle

\* the sleep of the health-check task l is over
SleepDone(l) ==
    /\ loops[l].pc = "sleeping"
    /\ loops[l].cycles < MaxCycles
    /\ Commit(SleepOver(St, l))
    /\ UNCHANGED lifecycle

\* the ping the health-check task l awaits is over
PingDone(l, res, goes_on) ==
    /\ loops[l].pc = "pinging"
    /\ Commit(PingOver(St, l, res, goes_on))
    /\ UNCHANGED lifecycle

\* a direct call of ping on the device object (d, o)
PingCall(d, o) ==
    /\ Len(SelectSeq(ops, LAMBDA x : x.op = "ping")) < MaxPings
    /\ Commit(PingBegin(AddOp("ping", d, o), NextOp, d, o))
    /\ UNCHANGED lifecycle

\* the probe of the direct ping k ends
PingReturns(k, probe) ==
    /\ ops[k].op = "ping"
    /\ ops[k].pc = "probe"
    /\ Commit(PingEnd(St, k, probe))
    /\ UNCHANGED lifecycle

ItemOutcomes(i) ==
    {Outcome("returned", "value", i), Outcome("raised", "ItemError", i)}

\* A scheduler built with max_concurrent = SchedCap, nothing scheduled
InitSched ==
    /\ agents = [a \in AgentIds |-> NewAgent]
    /\ registry = <<>>
    /\ task_results = EmptyMap
    /\ queue = <<>>
    /\ sem = SchedCap
    /\ cap = SchedCap
    /\ nextId = 1
    /\ now = 0
    /\ calls = <<>>
    /\ disp = EmptyMap
    /\ trace = EmptyMap
    /\ lifecycle = 0
    /\ weights = TaskRouterInit(NoOverride)
    /\ picks = <<>>
    /\ items = <<>>
    /\ runs = <<>>
    /\ devices = <<>>
    /\ listeners = [ev \in EventNames |-> <<>>]
    /\ heard = <<>>
    /\ running = FALSE
    /\ loops = <<>>
    /\ ops = <<>>
    /\ devstate = [key \in DeviceKeys |-> NewDevice(TRUE)]

Next ==
    \/ \E a \in AgentIds : RegisterAgent(a)
    \/ \E a \in AgentIds, t \in Tasks : DispatchTask(a, t)
    \/ \E ty \in AgentTypes, t \in Tasks, p \in Priorities : RouteTask(ty, t, p)
    \/ \E ty \in AgentTypes, t \in Tasks : BroadcastTask(ty, t)
    \/ \E c \in 1..Len(calls) : BroadcastStart(c)
    \/ \E tid \in DOMAIN disp :
          \E h \in HandlerOutcomes(disp[tid].agent_id, disp[tid].task) :
             HandlerEnds(tid, h)
    \/ \E c \in 1..Len(calls) : BroadcastReturn(c)
    \/ \E c \in 1..Len(calls) : BroadcastRaise(c)
    \/ Tick

\* The orchestrator: agents registered at set-up, then concurrent calls of
\* dispatch_task, route_task and broadcast_task.
Spec == Init /\ [][Next]_vars

\* The agents on their own: concurrent direct calls of execute, start and
\* stop on the agent objects.
NextAgent ==
    \/ \E a \in AgentIds, t \in Tasks : ExecuteCall(a, t)
    \/ \E k \in DOMAIN disp :
          \E h \in HandlerOutcomes(disp[k].agent_id, disp[k].task) :
             ExecuteEnds(k, h)
    \/ \E a \in AgentIds : AgentStart(a)
    \/ \E a \in AgentIds : AgentStop(a)
    \/ Tick

SpecAgent == Init /\ [][NextAgent]_vars

\* The router on its own: direct calls of select on a router built with
\* some weights.
NextRouter ==
    \E cands \in CandidateLists : \E jit \in Jitters(Len(cands)) :
        SelectCall(cands, jit)

SpecRouter == InitRouter /\ [][NextRouter]_vars

\* The events: callbacks subscribed to one event with on while a device
\* and an agent are registered, a task is dispatched and the orchestrator
\* is started and stopped.
NextEvents ==
    \/ \E ev \in EventNames, cb \in Listeners :
          /\ \A other \in EventNames \ {ev} : listeners[other] = <<>>
          /\ On(ev, cb)
    \/ Len(DeviceCalls(St)) < MaxEventCalls /\ RegisterDevice(1, 1)
    \/ RegisterAgent(1)
    \/ Len(calls) < MaxEventDispatch /\ DispatchTask(1, "get_frequency")
    \/ \E tid \in DOMAIN disp :
          \E h \in HandlerOutcomes(disp[tid].agent_id, disp[tid].task) :
             HandlerEnds(tid, h)
    \/ OrchestratorStart
    \/ \E k \in 1..Len(ops) : StartGather(k, {})
    \/ \E k \in 1..Len(ops) : StartReturns(k)
    \/ OrchestratorStop
    \/ \E k \in 1..Len(ops) : StopGather(k, {})
    \/ \E k \in 1..Len(ops) : StopReturns(k)

SpecEvents == Init /\ [][NextEvents]_vars

\* The lifecycle: the orchestrator is started and stopped, with start and
\* stop hooks that may raise, while two agents are registered, a task is
\* dispatched and a callback listens to the two events of the lifecycle.
NextLifecycle ==
    \/ \E a \in {1, 2} : RegisterAgent(a)
    \/ \E ev \in {"orchestrator_started", "orchestrator_stopped"} : On(ev, 2)
    \/ Len(calls) < MaxEventDispatch /\ DispatchTask(1, "get_frequency")
    \/ \E tid \in DOMAIN disp :
          \E h \in HandlerOutcomes(disp[tid].agent_id, disp[tid].task) :
             HandlerEnds(tid, h)
    \/ OrchestratorStart
    \/ \E k \in 1..Len(ops) : \E raising \in SUBSET AgentIds :
          StartGather(k, raising)
    \/ \E k \in 1..Len(ops) : StartReturns(k)
    \/ OrchestratorStop
    \/ \E k \in 1..Len(ops) : \E raising \in SUBSET AgentIds :
          StopGather(k, raising)
    \/ \E k \in 1..Len(ops) : StopReturns(k)
    \/ \E l \in 1..Len(loops) : LoopBegins(l)

SpecLifecycle == Init /\ [][NextLifecycle]_vars

\* The registry: devices and agents are registered and unregistered while
\* callbacks are subscribed to the events of the devices.
NextDevices ==
    \/ \E ev \in {"device_registered", "device_unregistered"} :
          \E cb \in Listeners : On(ev, cb)
    \/ \E d \in DeviceIds, o \in DeviceObjs : RegisterDevice(d, o)
    \/ \E d \in DeviceIds : UnregisterDevice(d)
    \/ \E a \in AgentIds : RegisterAgent(a)

SpecDevices == Init /\ [][NextDevices]_vars

\* The device objects on their own: two devices in any state, with or
\* without an address, are pinged directly while time passes.
InitPing ==
    /\ OrchestratorInit
    /\ \E st \in [DeviceIds -> DeviceStatuses], ls \in [DeviceIds -> {NoTime, 0}],
          ip \in [DeviceIds -> BOOLEAN] :
          devstate = [key \in DeviceKeys |->
                         IF key[2] = 1
                         THEN [status |-> st[key[1]], last_seen |-> ls[key[1]],
                               ip |-> ip[key[1]]]
                         ELSE NewDevice(TRUE)]

NextPing ==
    \/ \E d \in DeviceIds : PingCall(d, 1)
    \/ \E k \in 1..Len(ops) : \E probe \in ProbeOutcomes : PingReturns(k, probe)
    \/ Tick

SpecPing == InitPing /\ [][NextPing]_vars

\* The orchestrator of the health check: device 1 has an address, device 2
\* has one or not
InitHealth ==
    /\ OrchestratorInit
    /\ \E ip \in BOOLEAN :
          devstate = [key \in DeviceKeys |-> NewDevice(key[1] = 1 \/ ip)]

\* The health check: the orchestrator is started and stopped with no agent
\* registered while devices are registered and unregistered and the
\* health-check tasks run.
NextHealth ==
    \/ \E d \in DeviceIds : RegisterDevice(d, 1)
    \/ \E d \in DeviceIds : UnregisterDevice(d)
    \/ OrchestratorStart
    \/ OrchestratorStop
    \/ \E l \in 1..Len(loops) : LoopBegins(l)
    \/ \E l \in 1..Len(loops) : SleepDone(l)
    \/ \E l \in 1..Len(loops) : \E res \in PingOutcomes, g \in BOOLEAN :
          PingDone(l, res, g)

SpecHealth == InitHealth /\ [][NextHealth]_vars

\* The scheduler on its own: concurrent direct calls of schedule, run_next
\* and run_all with coroutines that suspend before they end.
NextSched ==
    \/ \E p \in Priorities : Schedule(p)
    \/ RunNext
    \/ \E r \in 1..Len(runs) : RunNextAcquire(r)
    \/ RunAll
    \/ \E r \in 1..Len(runs) : RunAllStart(r)
    \/ \E i \in 1..Len(items) : \E o \in ItemOutcomes(i) : ItemEnds(i, o)
    \/ \E r \in 1..Len(runs) : RunAllResume(r)

SpecSched == InitSched /\ [][NextSched]_vars

----------------------------------------------------------------------------
(* Properties of AgentBase.execute                                         *)

Finished(k) == disp[k].phase = "finished"

\* C1: an execute whose handler returns normally, with no other execute and
\* no stop on the agent during the call, has increased tasks_completed by
\* exactly 1, left tasks_failed as it was, left status = idle, and returned
\* the handler's result.
C1_SuccessfulExecute ==
    \A k \in DOMAIN disp :
        (Finished(k) /\ disp[k].handler.kind = "returned" /\ ~disp[k].disturbed)
        => /\ disp[k].after.tasks_completed = disp[k].before.tasks_completed + 1
           /\ disp[k].after.tasks_failed = disp[k].before.tasks_failed
           /\ disp[k].after.status = "idle"
           /\ disp[k].exec = Outcome("returned", disp[k].handler.val, None)

\* an undisturbed execute succeeded on an agent that had failed before
C1_Witness ==
    \E k \in DOMAIN disp :
        /\ Finished(k) /\ disp[k].handler.kind = "returned" /\ ~disp[k].disturbed
        /\ disp[k].before.status = "error"
        /\ disp[k].before.tasks_failed = 1

\* C2: an execute whose handler raises (an unsupported task name among the
\* causes) adds exactly 1 to tasks_failed and nothing to tasks_completed,
\* leaves status = error, and raises the handler's error instead of
\* returning a value; with no other execute and no stop on the agent during
\* the call, the counters differ from those at the start of the call by
\* that one failure.
C2_FailedExecute ==
    \A k \in DOMAIN disp :
        (Finished(k) /\ disp[k].handler.kind = "raised")
        => /\ disp[k].after.tasks_failed = disp[k].pre_end.tasks_failed + 1
           /\ disp[k].after.tasks_completed = disp[k].pre_end.tasks_completed
           /\ disp[k].after.status = "error"
           /\ disp[k].exec = Outcome("raised", disp[k].handler.val, None)
           /\ ~disp[k].disturbed
              => /\ disp[k].after.tasks_failed = disp[k].before.tasks_failed + 1
                 /\ disp[k].after.tasks_completed = disp[k].before.tasks_completed

\* an undisturbed execute of an unsupported task failed on an agent that
\* had completed a task before
C2_Witness ==
    \E k \in DOMAIN disp :
        /\ Finished(k) /\ disp[k].handler.val = "UnknownTask" /\ ~disp[k].disturbed
        /\ disp[k].before.tasks_completed = 1
        /\ disp[k].before.status = "idle"

----------------------------------------------------------------------------
(* Properties of dispatch_task                                             *)

\* the events and milestones logged for task id t, by name
EventsOf(t) ==
    IF t \in DOMAIN trace THEN [i \in 1..Len(trace[t]) |-> trace[t][i].event]
    ELSE <<>>

IsPrefix(s, t) == Len(s) <= Len(t) /\ SubSeq(t, 1, Len(s)) = s

\* C3: when the agent's execute fails, dispatch_task raises that error to
\* its caller and returns no task id; no result is stored and no
\* task_completed is emitted for the dispatch.
C3_FailurePropagates ==
    \A t \in DOMAIN disp :
        disp[t].exec.kind = "raised"
        => /\ disp[t].out = Outcome("raised", disp[t].handler.val, None)
           /\ t \notin DOMAIN task_results
           /\ \A i \in 1..Len(EventsOf(t)) : EventsOf(t)[i] # "task_completed"
           /\ calls[disp[t].call].op = "dispatch"
              => /\ calls[disp[t].call].pc = "raised"
                 /\ calls[disp[t].call].out
                       = Outcome("raised", disp[t].handler.val, None)

\* a direct dispatch_task call whose agent failed on an unsupported task
C3_Witness ==
    \E t \in DOMAIN disp :
        /\ disp[t].exec = Outcome("raised", "UnknownTask", None)
        /\ calls[disp[t].call].op = "dispatch"
        /\ calls[disp[t].call].pc = "raised"

\* the step is a dispatch_task call with an agent id that is not registered
UnknownAgentCall ==
    /\ Len(calls') = Len(calls) + 1
    /\ calls'[Len(calls')].op = "dispatch"
    /\ calls'[Len(calls')].agent_id \notin Range(registry)

\* C4: dispatch_task with an agent id that is not in the registry raises
\* UnknownAgent and leaves the task results, every agent's status and
\* metrics and the emitted events as they were (no task_dispatched, no
\* result entry, no execute).
C4_UnknownAgent ==
    [][UnknownAgentCall
       => /\ calls'[Len(calls')].pc = "raised"
          /\ calls'[Len(calls')].out = Outcome("raised", "UnknownAgent", None)
          /\ UNCHANGED <<task_results, agents, trace, disp, registry>>]_vars

\* dispatch_task was called with an unregistered agent id while another
\* agent was registered
C4_Witness ==
    \E c \in 1..Len(calls) :
        /\ calls[c].op = "dispatch"
        /\ calls[c].out.val = "UnknownAgent"
        /\ calls[c].agent_id \notin Range(registry)
        /\ registry # <<>>

\* the task ids the calls have generated so far (dispatch ids and the ids
\* route_task generates itself)
IssuedIds(c) ==
    calls[c].tids \o (IF calls[c].outer # None THEN <<calls[c].outer>> ELSE <<>>)

AllIdsDistinct ==
    \A c1, c2 \in 1..Len(calls) :
        \A i \in 1..Len(IssuedIds(c1)), j \in 1..Len(IssuedIds(c2)) :
            (c1 # c2 \/ i # j) => IssuedIds(c1)[i] # IssuedIds(c2)[j]

\* C5: once a dispatch_task call has returned task id t, get_task_result(t)
\* is the record with task_id t, the agent id and the task name given to the
\* call, and the handler's return value as result; t differs from every
\* other task id issued.
C5_ResultStored ==
    /\ AllIdsDistinct
    /\ \A t \in DOMAIN disp :
          disp[t].out.kind = "returned"
          => /\ disp[t].out.id = t
             /\ get_task_result(St, t)
                   = [task_id |-> t, agent_id |-> disp[t].agent_id,
                      task |-> disp[t].task, result |-> disp[t].handler.val]
             /\ disp[t].handler.kind = "returned"
             /\ calls[disp[t].call].op = "dispatch"
                => /\ calls[disp[t].call].out = Outcome("returned", "task_id", t)
                   /\ disp[t].agent_id = calls[disp[t].call].agent_id
                   /\ disp[t].task = calls[disp[t].call].task

\* a direct dispatch_task call returned an id after other ids were issued
C5_Witness ==
    \E t \in DOMAIN disp :
        /\ disp[t].out.kind = "returned"
        /\ calls[disp[t].call].op = "dispatch"
        /\ calls[disp[t].call].pc = "returned"
        /\ t > 2

\* C6: for every task id, task_dispatched is emitted before execute begins,
\* and task_completed only after execute has returned and the result has
\* been stored; no task_completed without an earlier task_dispatched, under
\* every interleaving of concurrent dispatches.
C6_EventOrder ==
    /\ \A t \in DOMAIN disp : EventsOf(t) # <<>>
    /\ \A t \in DOMAIN trace \ {None} :
          /\ \/ IsPrefix(EventsOf(t), <<"task_dispatched", "execute_begin",
                                        "execute_returned", "result_stored",
                                        "task_completed">>)
             \/ IsPrefix(EventsOf(t), <<"task_dispatched", "execute_begin",
                                        "execute_raised">>)
          /\ \A i \in 1..Len(trace[t]) :
                /\ trace[t][i].task_id = t
                /\ t \in DOMAIN disp
                   => /\ trace[t][i].agent_id = disp[t].agent_id
                      /\ trace[t][i].task = disp[t].task
          /\ (t \in DOMAIN disp /\ disp[t].phase = "executing")
                => EventsOf(t) = <<"task_dispatched", "execute_begin">>
          /\ t \in DOMAIN task_results => Len(trace[t]) >= 4

\* two dispatches overlapped on one agent and one of them has completed
C6_Witness ==
    \E t \in DOMAIN disp :
        /\ disp[t].disturbed
        /\ Len(EventsOf(t)) = 5
        /\ \E u \in DOMAIN disp : u # t /\ disp[u].phase = "executing"

----------------------------------------------------------------------------
(* Properties of route_task                                                *)

\* the step is a route_task call that got as far as awaiting a dispatch
RouteStarts ==
    /\ Len(calls') = Len(calls) + 1
    /\ calls'[Len(calls')].op = "route"
    /\ calls'[Len(calls')].pc = "running"

\* a and b differ in nothing but their status
EqualHistory(a, b) ==
    /\ ScoreEqual(SuccessRate(agents[a]), SuccessRate(agents[b]))
    /\ ScoreEqual(Recency(agents[a], now), Recency(agents[b], now))

\* C7: route_task starts execute on exactly one agent; that agent has the
\* requested type and is the agent select returns for the candidates
\* registered at the moment of the call (an idle candidate, not a busy one
\* of equal history); a route_task that returned has run exactly that one
\* dispatch.
C7_RoutesToSelected ==
    [][/\ RouteStarts
          => LET c == Len(calls')
                 cands == get_agents_by_type(St, calls'[c].type)
                 chosen == disp'[calls'[c].tids[1]].agent_id
             IN /\ Len(calls'[c].tids) = 1
                /\ DOMAIN disp' = DOMAIN disp \cup {calls'[c].tids[1]}
                /\ \E jit \in Jitters(Len(cands)) : chosen = select(St, cands, jit)
                /\ chosen \in Range(registry)
                /\ agent_type(chosen) = calls'[c].type
                /\ agents'[chosen].status = "busy"
                /\ \A a \in AgentIds \ {chosen} : agents'[a] = agents[a]
                /\ \A a, b \in Range(cands) :
                      (/\ Len(cands) = 2
                       /\ agents[a].status = "idle"
                       /\ agents[b].status = "busy"
                       /\ EqualHistory(a, b)) => chosen = a
       /\ \A c \in 1..Len(calls') :
             (calls'[c].op = "route" /\ calls'[c].pc = "returned")
             => /\ Len(calls'[c].tids) = 1
                /\ {t \in DOMAIN disp' : disp'[t].call = c} = Range(calls'[c].tids)
                /\ disp'[calls'[c].tids[1]].agent_id = calls'[c].selected
                /\ agent_type(calls'[c].selected) = calls'[c].type
      ]_vars

\* route_task returned after it chose the idle agent 2 over the busy agent 1:
\* neither had a failure, and both scored the full recency
C7_Witness ==
    \E c \in 1..Len(calls) :
        /\ calls[c].op = "route"
        /\ calls[c].pc = "returned"
        /\ calls[c].cands = <<1, 2>>
        /\ calls[c].selected = 2
        /\ disp[calls[c].tids[1]].before.status = "idle"
        /\ disp[calls[c].tids[1]].before.last_task_at = NoTime
        /\ disp[calls[c].tids[1]].after.last_task_at = RECENCY_WINDOW_SEC
        /\ \E u \in DOMAIN disp :
              /\ disp[u].agent_id = 1
              /\ disp[u].phase = "executing"
              /\ disp[u].before.last_task_at = NoTime
              /\ agents[1].last_task_at = 0

\* C8: once route_task has returned id t, get_task_result(t) is a record
\* holding the task name given to the call, and the same record is found
\* under the task id route_task generated for the scheduler.
C8_RouteResultUnderBothIds ==
    \A c \in 1..Len(calls) :
        (calls[c].op = "route" /\ calls[c].pc = "returned")
        => /\ calls[c].out.kind = "returned"
           /\ calls[c].out.id # None
           /\ get_task_result(St, calls[c].out.id) # NoRecord
           /\ get_task_result(St, calls[c].out.id).task = calls[c].task
           /\ get_task_result(St, calls[c].out.id).agent_id = calls[c].selected
           /\ calls[c].outer # None
           /\ get_task_result(St, calls[c].outer)
                 = get_task_result(St, calls[c].out.id)

\* a route_task returned an id that differs from the one it generated
C8_Witness ==
    \E c \in 1..Len(calls) :
        /\ calls[c].op = "route"
        /\ calls[c].pc = "returned"
        /\ calls[c].out.id # calls[c].outer
        /\ calls[c].outer \in DOMAIN task_results

\* the step is a route_task call for a type no registered agent has
RouteWithoutCandidates ==
    /\ Len(calls') = Len(calls) + 1
    /\ calls'[Len(calls')].op = "route"
    /\ get_agents_by_type(St, calls'[Len(calls')].type) = <<>>

\* C9: route_task for a type without a registered agent raises at once
\* (NoCandidateAgents) and leaves the scheduler (queue and slots), the task
\* results, every agent and the emitted events as they were.
C9_NoCandidates ==
    [][RouteWithoutCandidates
       => /\ calls'[Len(calls')].pc = "raised"
          /\ calls'[Len(calls')].out
                = Outcome("raised", "NoCandidateAgents", None)
          /\ UNCHANGED <<queue, sem, task_results, agents, trace, disp,
                         registry, nextId>>]_vars

\* route_task was refused for a type while an agent of the other type was
\* registered
C9_Witness ==
    \E c \in 1..Len(calls) :
        /\ calls[c].op = "route"
        /\ calls[c].out.val = "NoCandidateAgents"
        /\ registry # <<>>

----------------------------------------------------------------------------
(* Properties of broadcast_task                                            *)

\* the registered agents of a type
OfType(type) == {a \in Range(registry) : agent_type(a) = type}

\* the dispatches broadcast call c started on agent a
StartedOn(c, a) == {t \in DOMAIN disp : disp[t].call = c /\ disp[t].agent_id = a}

\* broadcast call c is over: it returned or it raised
BroadcastOver(c) ==
    /\ calls[c].op = "broadcast"
    /\ calls[c].pc \in {"returned", "raised"}

\* C10: a broadcast_task call that is over has invoked execute exactly once
\* on every registered agent of the type and on no other agent, and it has
\* returned one task id per agent of the type, each resolvable with
\* get_task_result; with no agent of the type it returned the empty list and
\* started nothing.
C10_BroadcastReturnsAllIds ==
    \A c \in 1..Len(calls) :
        BroadcastOver(c)
        => /\ \A a \in OfType(calls[c].type) : Cardinality(StartedOn(c, a)) = 1
           /\ \A a \in AgentIds \ OfType(calls[c].type) : StartedOn(c, a) = {}
           /\ calls[c].pc = "returned"
           /\ Len(calls[c].ids) = Cardinality(OfType(calls[c].type))
           /\ \A i \in 1..Len(calls[c].ids) :
                 /\ get_task_result(St, calls[c].ids[i]) # NoRecord
                 /\ StartedOn(c, get_task_result(St, calls[c].ids[i]).agent_id)
                       = {calls[c].ids[i]}

\* The part of C10 the code keeps: the fan-out reaches every agent of the
\* type once and no other agent, and a broadcast_task that raised did so
\* with the error of one of its dispatches.
C10_FanOut ==
    \A c \in 1..Len(calls) :
        BroadcastOver(c)
        => /\ \A a \in OfType(calls[c].type) : Cardinality(StartedOn(c, a)) = 1
           /\ \A a \in AgentIds \ OfType(calls[c].type) : StartedOn(c, a) = {}
           /\ calls[c].pc = "raised"
              => \E t \in Range(calls[c].tids) : disp[t].out = calls[c].out
           /\ calls[c].pc = "returned"
              => /\ Len(calls[c].ids) = Cardinality(OfType(calls[c].type))
                 /\ \A i \in 1..Len(calls[c].ids) :
                       get_task_result(St, calls[c].ids[i]) # NoRecord

\* broadcast_task raised although one of its dispatches stored a result
C10_RaisedWithStoredResult ==
    \E c \in 1..Len(calls) :
        /\ BroadcastOver(c)
        /\ calls[c].pc = "raised"
        /\ \E t \in Range(calls[c].tids) : t \in DOMAIN task_results

----------------------------------------------------------------------------
(* Properties of TaskRouter                                                *)

\* the composite score of agent a at the clock reading of the call
ScoreNow(a) == Score(weights, agents[a], now)

\* C14: select is deterministic and independent of the order of the
\* candidate list: two calls with the same set of agents, in the same
\* states and at the same time, return the same agent; the agent returned
\* has the maximal composite score, and the smallest id among the agents
\* of that score.
C14_SelectOrderIndependent ==
    \A i, j \in 1..Len(picks) :
        Range(picks[i].cands) = Range(picks[j].cands)
        => /\ picks[i].agent = picks[j].agent
           /\ \A b \in Range(picks[i].cands) :
                 /\ ~ScoreGreater(ScoreNow(b), ScoreNow(picks[i].agent))
                 /\ ScoreEqual(ScoreNow(b), ScoreNow(picks[i].agent))
                    => picks[i].agent <= b

\* What the code keeps of C14: calls during which the clock does not
\* advance agree, whatever the order of the list, on the agent of maximal
\* score and smallest id.
C14_SameReadings ==
    \A i, j \in 1..Len(picks) :
        (/\ Range(picks[i].cands) = Range(picks[j].cands)
         /\ picks[i].jit = NoJitter(Len(picks[i].cands))
         /\ picks[j].jit = NoJitter(Len(picks[j].cands)))
        => /\ picks[i].agent = picks[j].agent
           /\ \A b \in Range(picks[i].cands) :
                 /\ ~ScoreGreater(ScoreNow(b), ScoreNow(picks[i].agent))
                 /\ ScoreEqual(ScoreNow(b), ScoreNow(picks[i].agent))
                    => picks[i].agent <= b

\* two calls with the same two agents of equal state, listed in opposite
\* orders, returned different agents
C14_OrderDecides ==
    \E i, j \in 1..Len(picks) :
        /\ picks[i].cands = <<1, 2>>
        /\ picks[j].cands = <<2, 1>>
        /\ agents[1] = agents[2]
        /\ picks[i].agent = 2
        /\ picks[j].agent = 1
        /\ weights = TaskRouterInit(NoOverride)

\* The three criteria of agent a as the claim names them, for the call
\* picks[i]: the rank of the status, the ratio completed / (completed +
\* failed) as a pair (an agent without history has ratio 1), and the
\* recency at the reading the call took for a.
StatusRank(a) ==
    IF agents[a].status = "idle" THEN 2
    ELSE IF agents[a].status \in {"busy", "running"} THEN 1
    ELSE 0
Ratio(a) ==
    IF agents[a].tasks_completed + agents[a].tasks_failed = 0 THEN <<1, 1>>
    ELSE <<agents[a].tasks_completed,
           agents[a].tasks_completed + agents[a].tasks_failed>>
RatioGreater(a, b) == Ratio(a)[1] * Ratio(b)[2] > Ratio(b)[1] * Ratio(a)[2]
RatioEqual(a, b) == Ratio(a)[1] * Ratio(b)[2] = Ratio(b)[1] * Ratio(a)[2]
ReadingOf(i, a) == picks[i].jit[Pos(picks[i].cands, a)]
InWindow(a) ==
    agents[a].last_task_at # NoTime
    /\ now - agents[a].last_task_at < RECENCY_WINDOW_SEC
\* the age of a's last task, capped at the window: seconds and ticks
AgeOf(i, a) ==
    IF InWindow(a) THEN <<now - agents[a].last_task_at, ReadingOf(i, a)>>
    ELSE <<RECENCY_WINDOW_SEC, 0>>
RecencyGreater(i, a, b) ==
    \/ AgeOf(i, a)[1] > AgeOf(i, b)[1]
    \/ AgeOf(i, a)[1] = AgeOf(i, b)[1] /\ AgeOf(i, a)[2] > AgeOf(i, b)[2]
RecencyEqual(i, a, b) == AgeOf(i, a) = AgeOf(i, b)

\* in call i, a is strictly better than b in one criterion and equal in
\* the other two
BetterInOne(i, a, b) ==
    \/ StatusRank(a) > StatusRank(b) /\ RatioEqual(a, b) /\ RecencyEqual(i, a, b)
    \/ StatusRank(a) = StatusRank(b) /\ RatioGreater(a, b) /\ RecencyEqual(i, a, b)
    \/ StatusRank(a) = StatusRank(b) /\ RatioEqual(a, b) /\ RecencyGreater(i, a, b)

C16_WeightsSumToOne ==
    /\ weights.availability + weights.success_rate + weights.recency
          = weights.den
    /\ \A a \in AgentIds :
          /\ 0 <= ScoreNow(a).num
          /\ ScoreNow(a).num <= ScoreNow(a).den

\* What the code keeps of C16: when the merged raw values are all
\* non-negative and not all zero, the weights sum to 1 and the scores lie
\* in [0, 1].
C16_PositiveOverrides ==
    (/\ weights.availability >= 0
     /\ weights.success_rate >= 0
     /\ weights.recency >= 0
     /\ weights.availability + weights.success_rate + weights.recency > 0)
    => C16_WeightsSumToOne

\* a router whose weights are all zero
C16_AllZero ==
    /\ weights.availability = 0
    /\ weights.success_rate = 0
    /\ weights.recency = 0

----------------------------------------------------------------------------
(* Properties of TaskScheduler                                             *)

\* the scheduled coroutines that have been started and have not ended
Running == {i \in 1..Len(items) : items[i].state = "running"}

\* C11: at every moment the scheduled coroutines that the scheduler has
\* started and that have not finished, counted over all its run_next and
\* run_all calls, are at most max_concurrent.
C11_InFlightBounded == Cardinality(Running) <= cap

\* What the code keeps of C11: the coroutines started by run_next calls are
\* at most max_concurrent at any moment, and so is each batch of a run_all.
C11_PerCallBounded ==
    /\ Cardinality({i \in Running : runs[items[i].by].op = "run_next"}) <= cap
    /\ \A r \in 1..Len(runs) : Len(runs[r].batch) <= cap

\* a run_next started its coroutine while a run_all had a full batch
\* running
C11_OverCapacity ==
    /\ Cardinality(Running) > cap
    /\ \E i \in Running : runs[items[i].by].op = "run_next"
    /\ \E r \in 1..Len(runs) :
          /\ runs[r].op = "run_all"
          /\ Len(runs[r].batch) = cap
          /\ Range(runs[r].batch) \subseteq Running

\* the step is a call of run_next
RunNextStep ==
    /\ Len(runs') = Len(runs) + 1
    /\ runs'[Len(runs')].op = "run_next"

\* the task ids pending in a queue
PendingIds(q) == {q[k].task_id : k \in 1..Len(q)}

\* C12: whatever was scheduled, a run_next on a non-empty queue removes
\* exactly one item, whose priority value is minimal among the pending
\* items, and pending_count decreases by exactly 1; on an empty queue
\* run_next returns None and changes nothing.
C12_RunNextTakesMinimum ==
    [][RunNextStep
       => LET r == Len(runs')
          IN IF Len(queue) = 0
             THEN /\ runs'[r].pc = "returned"
                  /\ runs'[r].out = NoTask
                  /\ UNCHANGED <<queue, items, sem>>
             ELSE /\ Len(queue') = Len(queue) - 1
                  /\ runs'[r].item \in PendingIds(queue)
                  /\ PendingIds(queue') = PendingIds(queue) \ {runs'[r].item}
                  /\ \A k \in 1..Len(queue) :
                        items[runs'[r].item].priority <= queue[k].priority
                  /\ \A k \in 1..Len(queue') :
                        \E j \in 1..Len(queue) : queue[j] = queue'[k]
      ]_vars

\* a run_next took an item of priority 1 that was scheduled after two items
\* of a higher priority value, both still pending, and a run_next on the
\* empty queue returned None
C12_Witness ==
    /\ \E r \in 1..Len(runs) :
          /\ runs[r].op = "run_next"
          /\ runs[r].item = 3
          /\ items[3].priority = 1
          /\ items[1].priority > 1 /\ items[1].state = "pending"
          /\ items[2].priority > 1 /\ items[2].state = "pending"
    /\ \E r \in 1..Len(runs) : runs[r].op = "run_next" /\ runs[r].out = NoTask

\* a run_all call that has returned
RunAllOver(r) == runs[r].op = "run_all" /\ runs[r].pc = "returned"

\* positions k < l of the items run_all r took belong to one batch
SameBatch(r, k, l) == \A c \in Range(runs[r].cuts) : ~(k <= c /\ c < l)

\* run_all r ran each item it took once, and returned their outcomes,
\* errors as values, in the order it took them, with the queue empty
RunAllCollected(r) ==
    /\ runs[r].left = 0
    /\ Len(runs[r].results) = Len(runs[r].taken)
    /\ \A k \in 1..Len(runs[r].taken) :
          /\ items[runs[r].taken[k]].state = "done"
          /\ items[runs[r].taken[k]].starts = 1
          /\ items[runs[r].taken[k]].by = r
          /\ runs[r].results[k] = items[runs[r].taken[k]].out
    /\ \A k, l \in 1..Len(runs[r].taken) : runs[r].taken[k] = runs[r].taken[l] => k = l

\* C13 as stated: a run_all that has returned ran every item once, left the
\* queue empty and returned one result per item in non-decreasing priority
\* order, an error being a value of the list.
C13_RunAllOrdered ==
    /\ \A r \in 1..Len(runs) : runs[r].op = "run_all" => runs[r].pc # "raised"
    /\ \A r \in 1..Len(runs) :
          RunAllOver(r)
          => /\ RunAllCollected(r)
             /\ \A k, l \in 1..Len(runs[r].taken) :
                   k < l => items[runs[r].taken[k]].priority
                               <= items[runs[r].taken[l]].priority

\* C13, amended: a run_all that has returned ran every item it took from the
\* queue exactly once, left the queue empty and returned one result per
\* item in the order taken, an error being a value of the list that stops
\* no other item; the results of one batch are in non-decreasing priority
\* order, and the whole list is when nothing was scheduled while run_all
\* was running.
C13_RunAllBatches ==
    /\ \A r \in 1..Len(runs) : runs[r].op = "run_all" => runs[r].pc # "raised"
    /\ \A r \in 1..Len(runs) :
          RunAllOver(r)
          => /\ RunAllCollected(r)
             /\ \A k, l \in 1..Len(runs[r].taken) :
                   (k < l /\ (SameBatch(r, k, l) \/ ~runs[r].late))
                   => items[runs[r].taken[k]].priority
                         <= items[runs[r].taken[l]].priority

\* a run_all returned three results from two batches, the first of them an
\* error, with nothing scheduled in between
C13_Witness ==
    \E r \in 1..Len(runs) :
        /\ RunAllOver(r)
        /\ ~runs[r].late
        /\ Len(runs[r].results) = 3
        /\ Len(runs[r].cuts) = 2
        /\ runs[r].results[1].kind = "raised"
        /\ runs[r].results[2].kind = "returned"
        /\ runs[r].results[3].kind = "returned"
        /\ items[runs[r].taken[1]].priority < items[runs[r].taken[3]].priority

----------------------------------------------------------------------------
(* Properties of the events                                                *)

\* the callbacks subscribed to the event of emission e when it was made, in
\* subscription order
SubscribedAt(e) == [j \in 1..Len(e.subs) |-> e.subs[j].cb]

\* the operation that made emission e went on as it does without listeners
EmitterWentOn(e) ==
    /\ e.event = "device_registered" =>
          \E k \in 1..Len(ops) : /\ ops[k].op = "register_device"
                                  /\ ops[k].id = e.id
                                  /\ ops[k].out = "added"
    /\ e.event = "agent_registered" => e.id \in Range(registry)
    /\ e.event = "task_dispatched" => e.id \in DOMAIN disp
    /\ e.event = "task_completed" =>
          /\ e.id \in DOMAIN task_results
          /\ calls[disp[e.id].call].out = disp[e.id].out
    /\ e.event = "orchestrator_started" =>
          \E k \in 1..Len(ops) : ops[k].op = "start" /\ ops[k].out = "started"
    /\ e.event = "orchestrator_stopped" =>
          \E k \in 1..Len(ops) : ops[k].op = "stop" /\ ops[k].out = "stopped"

\* C17: every emission calls every callback subscribed to its event, in
\* subscription order, whether or not an earlier callback raised, and the
\* operation that emitted (register_device, register_agent, dispatch_task,
\* start, stop) goes on as it does without listeners.
C17_EmitCallsEveryListener ==
    \A j \in 1..Len(heard) :
        /\ heard[j].called = SubscribedAt(heard[j])
        /\ EmitterWentOn(heard[j])

\* an emission whose first callback raised and whose second was called
C17_Witness ==
    \E j \in 1..Len(heard) :
        /\ Len(heard[j].called) = 2
        /\ ListenerRaises(heard[j].called[1])
        /\ ~ListenerRaises(heard[j].called[2])
        /\ heard[j].event = "orchestrator_stopped"

\* how often callback cb occurs in the sequence called
Count(called, cb) == Cardinality({j \in 1..Len(called) : called[j] = cb})

\* how often device call k invoked callback cb for "device_registered",
\* and whether every such invocation carried the id of the call's device
InvokedBy(k, cb) ==
    LET es == SelectSeq(heard, LAMBDA e : e.event = "device_registered"
                                          /\ e.call = k)
    IN [n |-> IF Len(es) = 0 THEN 0
              ELSE Count(es[1].called, cb) + 2 * (Len(es) - 1),
        ids_match |-> \A j \in 1..Len(es) : es[j].id = DeviceCalls(St)[k].id]

\* C18 (as claimed): a callback subscribed to "device_registered" is
\* invoked exactly once for every register_device call made after the
\* subscription, with the id of that call's device.
C18_OncePerRegisterCall ==
    \A j \in 1..Len(listeners["device_registered"]) :
        LET sub == listeners["device_registered"][j]
        IN \A k \in (sub.since + 1)..Len(DeviceCalls(St)) :
              DeviceCalls(St)[k].op = "register_device" =>
                 /\ InvokedBy(k, sub.cb).n = 1
                 /\ InvokedBy(k, sub.cb).ids_match

\* C18 (amended): a callback subscribed to "device_registered" is invoked
\* exactly once, with the device's id, for every register_device call made
\* after the subscription that adds a device, and not at all for a call
\* with an id that is already registered nor for any other device call.
C18_OncePerAddedDevice ==
    \A j \in 1..Len(listeners["device_registered"]) :
        LET sub == listeners["device_registered"][j]
        IN \A k \in (sub.since + 1)..Len(DeviceCalls(St)) :
              /\ InvokedBy(k, sub.cb).n =
                    IF DeviceCalls(St)[k].op = "register_device"
                       /\ DeviceCalls(St)[k].out = "added" THEN 1 ELSE 0
              /\ InvokedBy(k, sub.cb).ids_match

\* a callback subscribed first, then a device added and registered again:
\* the callback was invoked for the first call only
C18_Witness ==
    /\ Len(listeners["device_registered"]) > 0
    /\ listeners["device_registered"][1].since = 0
    /\ Len(DeviceCalls(St)) = 2
    /\ DeviceCalls(St)[1].out = "added"
    /\ DeviceCalls(St)[2].out = "duplicate"
    /\ InvokedBy(1, listeners["device_registered"][1].cb).n = 1
    /\ InvokedBy(2, listeners["device_registered"][1].cb).n = 0

----------------------------------------------------------------------------
(* Properties of the registries                                           *)

\* the register_device call that added the device registered under d: the
\* latest one that found d absent
AddedBy(d) ==
    LET ks == {k \in 1..Len(ops) : /\ ops[k].op = "register_device"
                                   /\ ops[k].id = d
                                   /\ ops[k].out = "added"}
    IN CHOOSE k \in ks : \A j \in ks : j <= k

\* C19: a registry holds one entry per id; register_device with an id
\* already registered ends without an error and leaves the registry, the
\* object bound to the id (the one registered first) and the listeners'
\* record as they are, whatever object is passed; register_agent with an
\* agent already registered changes nothing at all.
C19_RegistrationIdempotent ==
    /\ \A j, k \in 1..Len(devices) :
          devices[j].device_id = devices[k].device_id => j = k
    /\ \A j, k \in 1..Len(registry) : registry[j] = registry[k] => j = k
    /\ \A k \in 1..Len(ops) :
          ops[k].op = "register_device" =>
             /\ ops[k].pc = "returned"
             /\ ops[k].out \in {"added", "duplicate"}
    /\ \A j \in 1..Len(devices) :
          /\ devices[j].obj = ops[AddedBy(devices[j].device_id)].obj
          /\ \A k \in (AddedBy(devices[j].device_id) + 1)..Len(ops) :
                ops[k].id = devices[j].device_id =>
                   ops[k].op = "register_device" /\ ops[k].out = "duplicate"
          /\ \A o \in DeviceObjs :
                LET S2 == register_device(AddOp("register_device",
                                                devices[j].device_id, o),
                                          NextOp, devices[j].device_id, o)
                IN /\ S2.devices = devices
                   /\ S2.heard = heard
                   /\ S2.ops[NextOp].out = "duplicate"
    /\ \A a \in Range(registry) : register_agent(St, a) = St

\* a device registered, then another object registered under the same id
\* twice: the id is still bound to the first object
C19_Witness ==
    /\ Len(ops) = 3
    /\ \A k \in 1..3 : ops[k].op = "register_device" /\ ops[k].id = 1
    /\ ops[1].obj = 1 /\ ops[2].obj = 2 /\ ops[3].obj = 2
    /\ ops[2].out = "duplicate" /\ ops[3].out = "duplicate"
    /\ devices = <<[device_id |-> 1, obj |-> 1]>>

----------------------------------------------------------------------------
(* Properties of the health check                                         *)

\* C20 (as claimed): no health-check task is ended by an error, and every
\* cycle it completed pinged each device registered at its start exactly
\* once, in order, whatever the pings returned or raised.
C20_EveryCyclePingsAll ==
    \A l \in 1..Len(loops) :
        /\ loops[l].pc # "dead"
        /\ loops[l].cycles > 0 => loops[l].last.pinged = loops[l].last.at_start

\* The same for the cycles during which no device is registered or
\* unregistered: these are complete, and a task only dies in a cycle that
\* saw the registry change.
C20_QuietCyclesPingAll ==
    \A l \in 1..Len(loops) :
        /\ loops[l].pc = "dead" => ~loops[l].quiet
        /\ (loops[l].cycles > 0 /\ loops[l].last.quiet) =>
              /\ loops[l].last.pinged = loops[l].last.at_start
              /\ Len(loops[l].last.results) = Len(loops[l].last.pinged)

\* the orchestrator is running and its health-check task is dead, having
\* pinged one of the two registered devices
C20_LoopDead ==
    \E l \in 1..Len(loops) :
        /\ running
        /\ Len(loops) = 1
        /\ loops[l].pc = "dead"
        /\ Len(devices) = 2
        /\ Len(loops[l].pinged) = 1

----------------------------------------------------------------------------
(* Properties of routing under load                                       *)

OnlyRouted == \A c \in 1..Len(calls) : calls[c].op = "route"

\* C28 (as claimed): when every task was submitted through route_task, no
\* agent has two execute calls awaiting their handlers at the same time.
C28_RoutedNeverShare ==
    OnlyRouted => \A a \in AgentIds : Cardinality(InFlight(St, a)) <= 1

\* two route_task calls, one agent of the type registered, and both
\* executes in flight on the same agent
C28_SharedAgent ==
    /\ OnlyRouted
    /\ Len(calls) = 2
    /\ \E a \in AgentIds :
          /\ Cardinality(InFlight(St, a)) = 2
          /\ Len(get_agents_by_type(St, agent_type(a))) = 1

----------------------------------------------------------------------------
(* Properties of the agent's lifecycle                                    *)

\* C24 (as claimed): no step takes an agent whose status is "stopped" to
\* another status.
C24_StoppedIsTerminal ==
    [][\A a \in AgentIds :
          agents[a].status = "stopped" => agents'[a].status = "stopped"]_vars

\* an execute that found its agent stopped and left it idle
C24_LeftStopped ==
    \E k \in DOMAIN disp :
        /\ disp[k].before.status = "stopped"
        /\ disp[k].phase = "finished"
        /\ agents[disp[k].agent_id].status = "idle"

----------------------------------------------------------------------------
(* Properties of TaskRouter, short lists                                  *)

\* what lines 79-83 of select yield for a list that is not empty: the
\* first of the candidates sorted by descending score and ascending id
ScoringPath(cands, jit) ==
    CHOOSE a \in Range(cands) :
        \A b \in Range(cands) \ {a} :
            \/ ScoreGreater(ScoreNow(a), ScoreNow(b))
            \/ ScoreEqual(ScoreNow(a), ScoreNow(b)) /\ a < b

\* C27: select of an empty list returned no agent, and select of a list of
\* one agent returned that agent, whatever its status and metrics, which
\* is what sorting the list by score yields.
C27_ShortLists ==
    \A j \in 1..Len(picks) :
        /\ Len(picks[j].cands) = 0 => picks[j].agent = None
        /\ Len(picks[j].cands) = 1 =>
              /\ picks[j].agent = picks[j].cands[1]
              /\ picks[j].agent = ScoringPath(picks[j].cands, picks[j].jit)

\* select was called with an empty list and with a list holding one
\* stopped agent that has failed its only task
C27_Witness ==
    /\ Len(picks) = 2
    /\ picks[1].cands = <<>> /\ picks[1].agent = None
    /\ Len(picks[2].cands) = 1
    /\ agents[picks[2].cands[1]].status = "stopped"
    /\ agents[picks[2].cands[1]].tasks_failed = 1
    /\ picks[2].agent = picks[2].cands[1]

----------------------------------------------------------------------------
(* Properties of unregister_device                                        *)

\* emission e reached the callbacks subscribed to ev with the id d
Heard(e, ev, d) == e.event = ev /\ e.id = d /\ Len(e.called) > 0

\* heard2 is heard with one more emission of ev for d if ev has a
\* listener, and heard itself otherwise
EmitsOnce(S, heard2, ev, d) ==
    IF Len(S.listeners[ev]) = 0 THEN heard2 = S.heard
    ELSE /\ Len(heard2) = Len(S.heard) + 1
         /\ SubSeq(heard2, 1, Len(S.heard)) = S.heard
         /\ Heard(heard2[Len(heard2)], ev, d)

\* C26: in every state, unregister_device of a registered id returns true
\* ("removed"), removes that entry and no other, and emits one
\* device_unregistered; get_device of the id is then absent, and
\* register_device with the id adds the object passed and emits
\* device_registered; unregister_device of an id that is not registered
\* returns false ("absent") and changes nothing.
C26_Unregister ==
    \A d \in DeviceIds :
        LET S1 == unregister_device(AddOp("unregister_device", d, None),
                                    NextOp, d)
        IN IF \E j \in 1..Len(devices) : devices[j].device_id = d
           THEN /\ S1.ops[NextOp].out = "removed"
                /\ S1.ops[NextOp].pc = "returned"
                /\ Len(S1.devices) = Len(devices) - 1
                /\ \A j \in 1..Len(devices) :
                      devices[j].device_id # d =>
                         \E i \in 1..Len(S1.devices) : S1.devices[i] = devices[j]
                /\ \A i \in 1..Len(S1.devices) : S1.devices[i].device_id # d
                /\ get_device(S1, d) = None
                /\ EmitsOnce(St, S1.heard, "device_unregistered", d)
                /\ \A o \in DeviceObjs :
                      LET k2 == Len(S1.ops) + 1
                          S2 == register_device(
                                  [S1 EXCEPT !.ops =
                                      Append(@, NewOp("register_device", d, o))],
                                  k2, d, o)
                      IN /\ S2.ops[k2].out = "added"
                         /\ get_device(S2, d) = o
                         /\ EmitsOnce(S1, S2.heard, "device_registered", d)
           ELSE /\ S1.ops[NextOp].out = "absent"
                /\ S1.ops[NextOp].pc = "returned"
                /\ S1.devices = devices
                /\ S1.heard = heard
                /\ S1.listeners = listeners

\* a device registered, unregistered and registered again with another
\* object, with a callback on each event: device_registered was heard
\* twice and device_unregistered once
C26_Witness ==
    /\ Len(ops) = 3
    /\ ops[1].op = "register_device" /\ ops[1].out = "added"
    /\ ops[2].op = "unregister_device" /\ ops[2].out = "removed"
    /\ ops[3].op = "register_device" /\ ops[3].out = "added"
    /\ ops[1].id = ops[2].id /\ ops[2].id = ops[3].id
    /\ ops[1].obj # ops[3].obj
    /\ get_device(St, ops[3].id) = ops[3].obj
    /\ Len(heard) = 3
    /\ Heard(heard[1], "device_registered", ops[1].id)
    /\ Heard(heard[2], "device_unregistered", ops[1].id)
    /\ Heard(heard[3], "device_registered", ops[1].id)

----------------------------------------------------------------------------
(* Properties of Orchestrator.start and stop                              *)

StartOps == {k \in 1..Len(ops) : ops[k].op = "start"}
StopOps == {k \in 1..Len(ops) : ops[k].op = "stop"}
Launched == {k \in StartOps : ops[k].out = "started"}

C23_AllStoppedAfterStop ==
    \A k \in StopOps :
        (/\ ops[k].out = "stopped"
         /\ \A j \in StartOps : j < k /\ ops[j].pc = "returned") =>
            /\ ~running
            /\ \A a \in Range(ops[k].targets) : agents[a].status = "stopped"

\* stop on an orchestrator that is not running changes nothing
C23_StopOnStoppedIsNoOp ==
    ~running =>
        LET S1 == StopCall(AddOp("stop", None, None), NextOp)
        IN /\ S1.ops[NextOp].out = "not_running"
           /\ S1.agents = agents /\ S1.heard = heard /\ S1.loops = loops
           /\ ~S1.running

\* start and stop have returned, and the agent whose task was in flight
\* when stop was called is idle: the task ended after the agent was stopped
C23_IdleAfterStop ==
    /\ Len(ops) = 2
    /\ ops[1].op = "start" /\ ops[1].out = "started"
    /\ ops[2].op = "stop" /\ ops[2].out = "stopped"
    /\ ~running
    /\ \E t \in DOMAIN disp :
          /\ disp[t].phase = "finished"
          /\ disp[t].pre_end.status = "stopped"
          /\ disp[t].agent_id \in Range(ops[2].targets)
          /\ agents[disp[t].agent_id].status = "idle"

----------------------------------------------------------------------------
(* Properties of ESP32Device.ping                                         *)

\* the direct ping k returns in this step
PingReturning(k) ==
    /\ k <= Len(ops')
    /\ ops'[k].op = "ping"
    /\ ops'[k].pc = "returned"
    /\ (k > Len(ops) \/ ops[k].pc # "returned")

\* C21: a ping returns true or false and never raises.  It returns true
\* exactly when the device has an address and the probe ended with status
\* 0, and then the status is "online" and last_seen is the time of the
\* return; when it returns false (no address, a non-zero status, a timeout,
\* a process that cannot be run) the status is "offline" and last_seen is
\* what it was.
C21_PingNeverRaises ==
    [][\A k \in 1..(Len(ops) + 1) :
          PingReturning(k) =>
             LET key == <<ops'[k].id, ops'[k].obj>>
             IN /\ ops'[k].out \in {"true", "false"}
                /\ ops'[k].out = "true" <=>
                      (devstate[key].ip /\ ops'[k].probe = "zero")
                /\ ops'[k].out = "true" =>
                      /\ devstate'[key].status = "online"
                      /\ devstate'[key].last_seen = now
                /\ ops'[k].out = "false" =>
                      /\ devstate'[key].status = "offline"
                      /\ devstate'[key].last_seen = devstate[key].last_seen
                /\ devstate'[key].ip = devstate[key].ip
                /\ \A other \in DeviceKeys \ {key} :
                      devstate'[other] = devstate[other]]_vars

\* a device seen at the second tick by a ping that returned true, then
\* pinged again with a timeout: it is offline and last_seen is unchanged
C21_Witness ==
    /\ Len(ops) = 2
    /\ ops[1].op = "ping" /\ ops[1].out = "true"
    /\ ops[2].op = "ping" /\ ops[2].out = "false" /\ ops[2].probe = "timeout"
    /\ ops[2].id = ops[1].id
    /\ devstate[<<ops[1].id, 1>>].status = "offline"
    /\ devstate[<<ops[1].id, 1>>].last_seen = TickSec

----------------------------------------------------------------------------
(* Properties of get_online_devices                                       *)

StatusOf(e) == devstate[<<e.device_id, e.obj>>].status

\* C25: in every state get_online_devices returns the registered devices
\* whose status is "online" at that moment, each once and no other.
C25_OnlineReflectsStatus ==
    LET online == get_online_devices(St)
    IN /\ \A j \in 1..Len(devices) :
             StatusOf(devices[j]) = "online" <=>
                Cardinality({i \in 1..Len(online) : online[i] = devices[j]}) = 1
       /\ \A i \in 1..Len(online) :
             \E j \in 1..Len(devices) : online[i] = devices[j]

\* two devices registered once each and never unregistered; both were
\* online after the first cycle of the health check, and a failed ping of
\* the second cycle has taken one of them out of get_online_devices
C25_Witness ==
    /\ Len(ops) = 3
    /\ ops[1].op = "register_device" /\ ops[2].op = "register_device"
    /\ Len(devices) = 2
    /\ Len(loops) = 1 /\ loops[1].cycles = 1
    /\ loops[1].last.results = <<"online", "online">>
    /\ loops[1].results = <<"offline">>
    /\ StatusOf(devices[1]) = "offline"
    /\ get_online_devices(St) = <<devices[2]>>

----------------------------------------------------------------------------
(* Properties of the health check under registry changes and stop         *)

\* C29 (as claimed): while the orchestrator is running, the health-check
\* task its latest start launched is alive.
C29_LoopAliveWhileRunning ==
    (running /\ Len(loops) > 0) => loops[Len(loops)].pc \notin {"dead", "ended"}

\* the orchestrator is running and the task is dead: of two devices it had
\* pinged the first when the first was unregistered, and the second,
\* still registered, was not pinged
C29_DeadAfterUnregister ==
    /\ running
    /\ Len(loops) = 1
    /\ loops[1].pc = "dead"
    /\ Len(loops[1].iter) = 2
    /\ Len(loops[1].pinged) = 1
    /\ Len(devices) = 1
    /\ devices[1] = loops[1].iter[2]
    /\ ops[Len(ops)].op = "unregister_device"

\* a stop call that found the orchestrator running has returned and no
\* start call was made after it
StopReturned ==
    \E k \in StopOps : /\ ops[k].out = "stopped"
                        /\ \A j \in StartOps : j < k

\* the health-check task l calls ping in this step
PingIssued(l) ==
    \/ loops[l].pc = "sleeping" /\ loops'[l] # loops[l]
                                /\ Len(loops'[l].pinged) > 0
    \/ loops[l].pc = "pinging" /\ Len(loops'[l].pinged) > Len(loops[l].pinged)

\* C30 (as claimed): once stop has returned, no health-check task calls
\* ping.
C30_NoPingAfterStop ==
    [][StopReturned => \A l \in 1..Len(loops) : ~PingIssued(l)]_vars

\* Once stop has returned, a task that reaches the head of its loop ends,
\* and a task that has ended stays so.
C30_EndsAtLoopHead ==
    [][StopReturned =>
          \A l \in 1..Len(loops) :
             /\ loops[l].pc = "ended" => loops'[l].pc = "ended"
             /\ loops'[l].cycles > loops[l].cycles => loops'[l].pc = "ended"]_vars

\* start, stop, and then a device registered: the task, which slept
\* through the stop, is pinging that device
C30_PingAfterStop ==
    /\ Len(ops) = 3
    /\ ops[1].op = "start" /\ ops[2].op = "stop" /\ ops[2].out = "stopped"
    /\ ops[3].op = "register_device"
    /\ ~running
    /\ loops[1].pc = "pinging"
    /\ loops[1].pinged = <<ops[3].id>>

----------------------------------------------------------------------------
(* The status state machine of an agent                                    *)

\* the status changes the state machine allows: Idle to Busy, Busy to Idle
\* or Error, and anything to Stopped
StatusStep(old, new) ==
    \/ old = "idle" /\ new = "busy"
    \/ old = "busy" /\ new \in {"idle", "error"}
    \/ new = "stopped"

\* C31 (as claimed): every status change of an agent is a step of the state
\* machine: execute begins only in Idle, Busy goes to Idle or Error, start
\* keeps Idle and stop leads to Stopped; no agent goes from Error to Busy
\* and Running is never reached.
C31_StateMachine ==
    [][\A a \in AgentIds :
          /\ agents'[a].status # "running"
          /\ agents'[a].status # agents[a].status
                => StatusStep(agents[a].status, agents'[a].status)]_vars

\* The statuses the code assigns are Idle, Busy, Error and Stopped: Running
\* is never reached.
C31_RunningNeverReached ==
    \A a \in AgentIds : agents[a].status \in {"idle", "busy", "error", "stopped"}

\* an execute that found its agent in Error has made it Busy
C31_ErrorToBusy ==
    \E k \in DOMAIN disp :
        /\ disp[k].phase = "executing"
        /\ disp[k].before.status = "error"
        /\ ~disp[k].disturbed
        /\ agents[disp[k].agent_id].status = "busy"

----------------------------------------------------------------------------
(* The status while the handler runs                                       *)

\* the executes awaiting their handler that have had their agent to
\* themselves: no other execute in flight on it, and no stop
Undisturbed ==
    {k \in DOMAIN disp : disp[k].phase = "executing" /\ ~disp[k].disturbed}

\* C32 (as claimed): while the handler of an execute runs, with no other
\* execute in flight on the agent and no stop, the agent's status is Busy
\* and last_task_at is set, so a router selection made then scores the
\* agent as busy (availability 0.5, not 1.0).
C32_BusyWhileHandlerRuns ==
    \A k \in Undisturbed :
        LET ag == agents[disp[k].agent_id]
        IN /\ ag.status = "busy"
           /\ ag.last_task_at # NoTime
           /\ Availability(ag) = 1

\* The same holds as long as neither start nor stop has been called on an
\* agent: then the handler runs with status Busy and last_task_at set.
C32_BusyWithoutStart ==
    lifecycle = 0 =>
        \A k \in Undisturbed :
            LET ag == agents[disp[k].agent_id]
            IN /\ ag.status = "busy"
               /\ ag.last_task_at # NoTime
               /\ Availability(ag) = 1

\* a start during an execute: the handler is still running, no other
\* execute and no stop has touched the agent, and the status is Idle
C32_IdleWhileHandlerRuns ==
    \E k \in Undisturbed :
        /\ agents[disp[k].agent_id].status = "idle"
        /\ Availability(agents[disp[k].agent_id]) = 2
        /\ lifecycle = 1

----------------------------------------------------------------------------
(* The metrics under interleaved executes                                  *)

\* the executes of agent a that have finished with a handler outcome of
\* the given kind
FinishedAs(a, kind) ==
    {k \in DOMAIN disp : /\ disp[k].agent_id = a
                         /\ disp[k].phase = "finished"
                         /\ disp[k].handler.kind = kind}

\* C34: under any interleaving of execute calls on one agent no metric
\* update is lost: tasks_completed is the number of executes that have
\* finished successfully, tasks_failed the number that have finished with
\* an error, and their sum the number of finished executes.
C34_NoLostUpdate ==
    \A a \in AgentIds :
        /\ agents[a].tasks_completed = Cardinality(FinishedAs(a, "returned"))
        /\ agents[a].tasks_failed = Cardinality(FinishedAs(a, "raised"))
        /\ agents[a].tasks_completed + agents[a].tasks_failed =
              Cardinality({k \in DOMAIN disp : /\ disp[k].agent_id = a
                                               /\ disp[k].phase = "finished"})

\* two executes that overlapped on one agent have both finished, and both
\* are counted
C34_Witness ==
    \E k1, k2 \in DOMAIN disp :
        /\ k1 # k2
        /\ disp[k1].agent_id = disp[k2].agent_id
        /\ disp[k1].phase = "finished" /\ disp[k2].phase = "finished"
        /\ disp[k1].disturbed /\ disp[k2].disturbed
        /\ disp[k2].before.status = "busy"
        /\ agents[disp[k1].agent_id].tasks_completed
              + agents[disp[k1].agent_id].tasks_failed = 2

----------------------------------------------------------------------------
(* The task-result map                                                     *)

\* C36: the task-result map is append-only and its records are immutable:
\* in every step of dispatch_task, broadcast_task and route_task an id that
\* is present stays present with the record it had; nothing is removed or
\* overwritten.
C36_AppendOnly ==
    [][\A k \in DOMAIN task_results :
          /\ k \in DOMAIN task_results'
          /\ task_results'[k] = task_results[k]]_vars

\* a routed call has returned and its record stands under both of its ids,
\* next to the record of another call
C36_Witness ==
    \E c \in 1..Len(calls) :
        /\ calls[c].op = "route"
        /\ calls[c].pc = "returned"
        /\ calls[c].outer \in DOMAIN task_results
        /\ calls[c].out.id \in DOMAIN task_results
        /\ calls[c].out.id # calls[c].outer
        /\ task_results[calls[c].outer] = task_results[calls[c].out.id]
        /\ Cardinality(DOMAIN task_results) >= 3

----------------------------------------------------------------------------
(* route_task and the scheduler queue                                      *)

\* the route_task calls that have started a dispatch
RoutedCalls ==
    {c \in 1..Len(calls) : calls[c].op = "route" /\ Len(calls[c].tids) = 1}

----------------------------------------------------------------------------
(* select between live and dead agents                                     *)

\* The states an agent object can be in when select scores it, with the
\* histories of one or two finished tasks and a last task that is none, a
\* window ago, inside the window, or stamped with the clock reading that
\* select gets (age 0).  Error is set together with a failure (agent.py
\* 90-91) and Busy together with last_task_at (82-83); start and stop
\* change the status of an agent whatever its history is.
SelectAgentStates ==
    {ag \in {[status |-> st, tasks_completed |-> h[1], tasks_failed |-> h[2],
              last_task_at |-> l] :
                st \in {"idle", "busy", "error", "stopped"},
                h \in {<<0, 0>>, <<1, 0>>, <<0, 1>>, <<1, 1>>},
                l \in {NoTime, 0, MaxLastTask, RouterClock}} :
        /\ ag.tasks_completed + ag.tasks_failed > 0 => ag.last_task_at # NoTime
        /\ ag.status = "error" => ag.tasks_failed > 0
        /\ ag.status = "busy" => ag.last_task_at # NoTime}

\* A TaskRouter with the default weights and agents in some state
InitSelect ==
    /\ \E ags \in [AgentIds \ {3} -> SelectAgentStates] :
          agents = [a \in AgentIds |-> IF a \in DOMAIN ags THEN ags[a]
                                       ELSE NewAgent]
    /\ weights = TaskRouterInit(NoOverride)
    /\ registry = <<>>
    /\ task_results = EmptyMap
    /\ queue = <<>>
    /\ sem = max_concurrent
    /\ nextId = 1
    /\ now = RouterClock
    /\ calls = <<>>
    /\ disp = EmptyMap
    /\ trace = EmptyMap
    /\ lifecycle = 0
    /\ picks = <<>>
    /\ cap = max_concurrent
    /\ items = <<>>
    /\ runs = <<>>
    /\ devices = <<>>
    /\ listeners = [ev \in EventNames |-> <<>>]
    /\ heard = <<>>
    /\ running = FALSE
    /\ loops = <<>>
    /\ ops = <<>>
    /\ devstate = [key \in DeviceKeys |-> NewDevice(TRUE)]

\* one call of select
NextSelect ==
    \E cands \in CandidateLists : \E jit \in Jitters(Len(cands)) :
        /\ picks = <<>>
        /\ SelectCall(cands, jit)

SpecSelect == InitSelect /\ [][NextSelect]_vars

\* the calls of select with two or more candidates of which one is Idle
IdlePresent ==
    {i \in 1..Len(picks) :
        /\ Len(picks[i].cands) >= 2
        /\ \E a \in Range(picks[i].cands) : agents[a].status = "idle"}

\* C38 (as claimed): with the default weights, select on a list of two or
\* more agents that holds an Idle agent never returns an agent whose status
\* is Error or Stopped.
C38_NeverDeadOverIdle ==
    \A i \in IdlePresent :
        agents[picks[i].agent].status \notin {"error", "stopped"}

\* the score of candidate a in call i is exactly one half
ScoresHalf(i, a) == ScoreEqual(Score(weights, agents[a], now), [num |-> 1, den |-> 2])

\* What the scores give: an Error agent is never returned when an Idle one
\* is in the list, and a Stopped agent only when it has no failure and a
\* full recency, every Idle candidate scores exactly one half (no success,
\* age 0), and the Stopped agent has the lowest id among them.
C38_OnlyOnExactTie ==
    \A i \in IdlePresent :
        LET best == picks[i].agent
        IN /\ agents[best].status # "error"
           /\ agents[best].status = "stopped" =>
                 /\ agents[best].tasks_failed = 0
                 /\ ScoresHalf(i, best)
                 /\ \A a \in Range(picks[i].cands) :
                       agents[a].status = "idle" =>
                          /\ agents[a].tasks_completed = 0
                          /\ agents[a].tasks_failed > 0
                          /\ agents[a].last_task_at = now
                          /\ best < a

\* select has returned a Stopped agent that never ran a task over an Idle
\* agent that failed its only task at the clock reading of the call
C38_StoppedOverIdle ==
    \E i \in IdlePresent :
        /\ picks[i].cands = <<2, 1>>
        /\ picks[i].agent = 1
        /\ agents[1] = [NewAgent EXCEPT !.status = "stopped"]
        /\ agents[2] = [status |-> "idle", tasks_completed |-> 0,
                        tasks_failed |-> 1, last_task_at |-> now]

----------------------------------------------------------------------------
(* Equal priorities                                                        *)

\* the queue holds four items of one priority, in the order they were
\* scheduled
FourEqualInOrder ==
    /\ Len(queue) = 4
    /\ \A i \in 1..3 : /\ queue[i].priority = queue[i + 1].priority
                       /\ queue[i].task_id < queue[i + 1].task_id

\* C39: the scheduler orders items by priority alone and does not keep
\* FIFO among equal priorities: the item run_next takes has the smallest
\* priority of the queue, and from a queue of four items of one priority,
\* held in the order they were scheduled, two run_next calls take the first
\* and then the third, which was scheduled after the second.
C39_PriorityAloneNoFifo ==
    /\ Len(queue) > 0 =>
          \A i \in 1..Len(queue) :
             heappop(queue).item.priority <= queue[i].priority
    /\ FourEqualInOrder =>
          /\ heappop(queue).item = queue[1]
          /\ heappop(heappop(queue).heap).item = queue[3]

\* four items of one priority were scheduled and two run_next calls made:
\* the second call runs the third item while the second item, scheduled
\* before it, is still waiting in the queue
C39_Witness ==
    /\ Len(items) = 4
    /\ \A i \in 1..3 : items[i].priority = items[i + 1].priority
    /\ Len(runs) = 2
    /\ runs[1].op = "run_next" /\ runs[1].item = 1
    /\ runs[2].op = "run_next" /\ runs[2].item = 3
    /\ items[3].starts = 1
    /\ items[2].state = "pending" /\ items[2].starts = 0
    /\ Len(queue) = 2

----------------------------------------------------------------------------
(* Firmware (orchestrator/device.py)                                       *)

\* the number of flash_firmware calls
MaxFlash == 2

\* How the device answers the HTTP command: a JSON object with status ok,
\* a JSON object with another status, JSON that is not an object, bytes
\* that are not JSON, or no answer at all
CommandAnswers == {"ok", "rejected", "not_an_object", "not_json", "unreachable"}

\* ESP32Device.send_command: ConnectionError without an address; the error
\* of urlopen or of json.loads is logged and raised again; otherwise the
\* decoded answer is returned
send_command(dev, answer) ==
    IF ~dev.ip THEN Outcome("raised", "ConnectionError", None)
    ELSE IF answer = "unreachable" THEN Outcome("raised", "URLError", None)
    ELSE IF answer = "not_json" THEN Outcome("raised", "JSONDecodeError", None)
    ELSE Outcome("returned", answer, None)

\* the classes that "except Exception" catches, of those that can be
\* raised between lines 149 and 155
ExceptionClasses ==
    {"ConnectionError", "URLError", "JSONDecodeError", "AttributeError"}

\* (mutant) flash_firmware catches connectivity errors only
FlashCatchesConnectivity == {"ConnectionError", "URLError"}

\* the classes the handler at line 157 catches
FlashCatches == ExceptionClasses

\* flash_firmware, lines 150-156, on what send_command handed back:
\* resp.get on an answer that is not an object raises AttributeError
FlashTry(resp) ==
    IF resp.kind = "raised" THEN resp
    ELSE IF resp.val = "not_an_object"
    THEN Outcome("raised", "AttributeError", None)
    ELSE IF resp.val = "ok" THEN Outcome("returned", "true", None)
    ELSE Outcome("returned", "false", None)

\* ESP32Device.flash_firmware as call k on the device object (d, o).
\* send_command has no suspension (urlopen blocks), so the call runs to
\* its end in one step.  The op record keeps in started the status the
\* device had when the command was sent; the firmware version, which
\* nothing else reads, is left out.
flash_firmware(S, k, d, o, answer) ==
    LET key == <<d, o>>
        S1 == [S EXCEPT !.devstate[key].status = "updating"]
        sent == S1.devstate[key]
        t == FlashTry(send_command(sent, answer))
        S2 == [S1 EXCEPT !.ops[k].started = <<sent.status>>,
                         !.ops[k].probe = IF sent.ip THEN answer ELSE "none"]
    IN IF t.kind = "returned" /\ t.val = "true"
       THEN EndOp([S2 EXCEPT !.devstate[key].status = "online"], k, "true")
       ELSE IF t.kind = "returned"
       THEN EndOp([S2 EXCEPT !.devstate[key].status = "error"], k, "false")
       ELSE IF t.val \in FlashCatches
       THEN EndOp([S2 EXCEPT !.devstate[key].status = "error"], k, "false")
       ELSE [S2 EXCEPT !.ops[k].pc = "raised", !.ops[k].out = t.val]

\* a direct call of flash_firmware (as the firmware agent makes it)
FlashFirmware(d, o, answer) ==
    /\ Len(SelectSeq(ops, LAMBDA x : x.op = "flash_firmware")) < MaxFlash
    /\ Commit(flash_firmware(AddOp("flash_firmware", d, o), NextOp, d, o, answer))
    /\ UNCHANGED lifecycle

\* Two devices that have not been seen yet, in any status, with or without
\* an address
InitFlash ==
    /\ OrchestratorInit
    /\ \E st \in [DeviceIds -> DeviceStatuses], ip \in [DeviceIds -> BOOLEAN] :
          devstate = [key \in DeviceKeys |->
                         IF key[2] = 1
                         THEN [status |-> st[key[1]], last_seen |-> NoTime,
                               ip |-> ip[key[1]]]
                         ELSE NewDevice(TRUE)]

\* The device objects on their own: the two devices are flashed and pinged
\* directly while time passes.
NextFlash ==
    \/ \E d \in DeviceIds, answer \in CommandAnswers : FlashFirmware(d, 1, answer)
    \/ \E d \in DeviceIds : PingCall(d, 1)
    \/ \E k \in 1..Len(ops) : \E probe \in ProbeOutcomes : PingReturns(k, probe)
    \/ Tick

SpecFlash == InitFlash /\ [][NextFlash]_vars

\* the step is a call of flash_firmware
FlashStep ==
    /\ Len(ops') = Len(ops) + 1
    /\ ops'[Len(ops')].op = "flash_firmware"

\* C40: flash_firmware sets the status to Updating before the OTA command
\* is sent, never raises, and leaves the device Online when the command was
\* answered with status ok and in Error after any other answer or a
\* connectivity error, never in Updating.
C40_FlashEndsOnlineOrError ==
    [][FlashStep =>
          LET f == ops'[Len(ops')]
              dev == devstate'[<<f.id, f.obj>>]
              ok == devstate[<<f.id, f.obj>>].ip /\ f.probe = "ok"
          IN /\ f.started = <<"updating">>
             /\ f.pc = "returned"
             /\ f.out = IF ok THEN "true" ELSE "false"
             /\ dev.status = IF ok THEN "online" ELSE "error"
             /\ dev.status # "updating"]_vars

\* one device was flashed and answered ok, the other answered with JSON
\* that is not an object: the first is Online, the second in Error, and
\* both calls returned
C40_Witness ==
    /\ Len(ops) = 2
    /\ ops[1].op = "flash_firmware" /\ ops[1].id = 1 /\ ops[1].probe = "ok"
    /\ ops[1].out = "true" /\ devstate[<<1, 1>>].status = "online"
    /\ ops[2].op = "flash_firmware" /\ ops[2].id = 2
    /\ ops[2].probe = "not_an_object"
    /\ ops[2].out = "false" /\ devstate[<<2, 1>>].status = "error"
    /\ ops[1].started = <<"updating">> /\ ops[2].started = <<"updating">>

----------------------------------------------------------------------------
(* Restarting the orchestrator                                             *)

\* the number of start and stop calls of a restart
MaxRestart == 3

\* The orchestrator is started, stopped and started again with one device
\* registered beforehand, while the health-check tasks run.
NextRestart ==
    \/ ops = <<>> /\ RegisterDevice(1, 1)
    \/ StartUpTo(MaxRestart)
    \/ StopUpTo(MaxRestart)
    \/ \E l \in 1..Len(loops) : LoopBegins(l)
    \/ \E l \in 1..Len(loops) : SleepDone(l)
    \/ \E l \in 1..Len(loops) : \E res \in PingOutcomes, g \in BOOLEAN :
          PingDone(l, res, g)

SpecRestart == InitHealth /\ [][NextRestart]_vars

\* the health-check tasks that have not ended
ActiveLoops ==
    {l \in 1..Len(loops) : loops[l].pc \in {"new", "sleeping", "pinging"}}

\* C33 (as claimed): at any time at most one health-check loop is active,
\* under every sequence of start and stop calls, also when a stop is
\* followed by a start before the previous loop has woken from its sleep.
C33_AtMostOneLoop == Cardinality(ActiveLoops) <= 1

\* Every start that finds the orchestrator stopped creates one task, and
\* without a stop there is at most one.
C33_OneLoopPerStart ==
    /\ Len(loops) = Cardinality({k \in 1..Len(ops) :
                                    ops[k].op = "start" /\ ops[k].out = "started"})
    /\ (\A k \in 1..Len(ops) : ops[k].op # "stop") => Cardinality(ActiveLoops) <= 1

\* start, stop and start: the task of the first start slept through the
\* stop, found _running set again and went on; it and the task of the
\* second start are pinging the same device at the same time
C33_TwoLoops ==
    /\ running
    /\ Len(loops) = 2
    /\ loops[1].cycles >= 1
    /\ loops[1].pc = "pinging" /\ loops[1].cur = <<1, 1>>
    /\ loops[2].pc = "pinging" /\ loops[2].cur = <<1, 1>>

----------------------------------------------------------------------------
(* route_task and the concurrency slots                                    *)

\* max_concurrent of the orchestrator's scheduler, scaled down from 10 so
\* that calls have to wait for a slot
RouteCap == 1

\* run_next of route_task call c gets the semaphore it waited for
\* (scheduler.py line 60) and awaits the coroutine it had popped
RouteAcquired(S, c) ==
    LET coro == S.calls[c].coro
        S1 == dispatch_task([S EXCEPT !.sem = @ - 1], c, coro.agent_id, coro.task)
    IN IF S1.ret.kind = "raised"
       THEN EndCall([S1 EXCEPT !.sem = @ + 1], c, S1.ret)
       ELSE [S1 EXCEPT !.calls[c].pc = "running", !.calls[c].tids = <<S1.ret.id>>]

\* a route_task call that waits for a slot gets one
RouteAcquire(c) ==
    /\ calls[c].op = "route"
    /\ calls[c].pc = "acquire"
    /\ sem > 0
    /\ Commit(RouteAcquired(St, c))
    /\ UNCHANGED lifecycle

\* an orchestrator whose scheduler has RouteCap slots
InitRoute ==
    /\ agents = [a \in AgentIds |-> NewAgent]
    /\ registry = <<>>
    /\ task_results = EmptyMap
    /\ queue = <<>>
    /\ sem = RouteCap
    /\ cap = RouteCap
    /\ nextId = 1
    /\ now = 0
    /\ calls = <<>>
    /\ disp = EmptyMap
    /\ trace = EmptyMap
    /\ lifecycle = 0
    /\ weights = TaskRouterInit(NoOverride)
    /\ picks = <<>>
    /\ items = <<>>
    /\ runs = <<>>
    /\ devices = <<>>
    /\ listeners = [ev \in EventNames |-> <<>>]
    /\ heard = <<>>
    /\ running = FALSE
    /\ loops = <<>>
    /\ ops = <<>>
    /\ devstate = [key \in DeviceKeys |-> NewDevice(TRUE)]

\* the handler of some dispatch ends
SomeHandlerEnds ==
    \E tid \in DOMAIN disp :
       \E h \in HandlerOutcomes(disp[tid].agent_id, disp[tid].task) :
          HandlerEnds(tid, h)

\* some waiting call gets its slot
SomeRouteAcquires == \E c \in 1..Len(calls) : RouteAcquire(c)

\* Routed calls only: agents are registered, then route_task is called
\* more often than there are slots.
NextRoute ==
    \/ \E a \in AgentIds : RegisterAgent(a)
    \/ \E ty \in AgentTypes, t \in Tasks, p \in Priorities : RouteTask(ty, t, p)
    \/ SomeRouteAcquires
    \/ SomeHandlerEnds

\* Every handler terminates, and the event loop runs a task that is ready:
\* a handler that is running ends, and a call waiting at a free semaphore
\* is woken.
SpecRouteLive ==
    /\ InitRoute
    /\ [][NextRoute]_vars
    /\ WF_vars(SomeHandlerEnds)
    /\ WF_vars(SomeRouteAcquires)

RouteInFlight(c) ==
    Len(calls) >= c /\ calls[c].pc \in {"acquire", "running"}
RouteEnded(c) ==
    Len(calls) >= c /\ calls[c].pc \in {"returned", "raised"}

\* C35: provided every handler terminates, every route_task call eventually
\* returns or raises, also when more calls are in flight than there are
\* slots; a failed task releases its slot like a successful one, so
\* whenever no call is in flight every slot is free, and the slots taken
\* are those of the calls whose dispatch is running.
C35_RouteTerminates ==
    /\ [](sem = RouteCap - Cardinality({c \in 1..Len(calls) :
                                          calls[c].pc = "running"}))
    /\ []((\A c \in 1..Len(calls) : ~RouteInFlight(c)) => sem = RouteCap)
    /\ \A c \in 1..MaxCalls : RouteInFlight(c) ~> RouteEnded(c)

\* two calls are in flight with one slot: the first runs its handler, the
\* second waits at the semaphore
C35_Witness ==
    /\ Len(calls) = 2
    /\ calls[1].pc = "running"
    /\ calls[2].pc = "acquire"
    /\ sem = 0

====
